---- MODULE Spec2Model ----
(***************************************************************************)
(* Model of the ACA-Py backchannel of the Aries Agent Test Harness:        *)
(* the webhook receiver, the resource store it fills, the thread-id to     *)
(* exchange-id rendezvous, the pre-condition wait and the fetch of webhook *)
(* results (aries-backchannels/acapy/acapy_backchannel.py).                *)
(*                                                                         *)
(* The backchannel runs on one asyncio event loop: code between two awaits *)
(* that suspend (asyncio.sleep, an admin HTTP request) is one atomic step. *)
(* A JSON object is a TLA+ record; a topic is the sequence of its words    *)
(* and separators, so that replacing "-" by "_" is a real conversion.      *)
(***************************************************************************)
EXTENDS Integers, Sequences, FiniteSets, TLC

VARIABLES
    storage,     \* python.storage: (data_id, data_type) -> list of messages
    nWebhooks,   \* number of webhook requests received so far
    whResp,      \* what the webhook endpoint did with the last request
    cmd,         \* per worker: the BackchannelCommand it executes
    pc,          \* per worker: where its coroutine is suspended
    timeout,     \* per worker: the loop counter of the wait it is in
    ex_id,       \* per worker: the exchange id the rendezvous returned
    resp,        \* per worker: the (status, text) returned, or the fault
    reads,       \* per worker: store reads done by its rendezvous / fetch
    adminLog,    \* admin API requests issued so far
    pushLog,     \* history: every (data_id, data_type, message) pushed
    delivered,   \* history: what the fetches returned, in order
    auto,        \* the auto_accept / auto_respond flags of the backchannel
    agent,       \* the agent behind the admin API: what it has created
    admin_resp,  \* per worker: the last (resp_status, resp_text) it was given
    call,        \* the last call of a helper method and what it returned
    acapy_version \* the agent's version text, a sequence of characters

vars == <<storage, nWebhooks, whResp, cmd, pc, timeout, ex_id, resp, reads,
          adminLog, pushLog, delivered, auto, agent, admin_resp, call,
          acapy_version>>

(***************************************************************************)
(* Bounds of the model.                                                    *)
(***************************************************************************)
MaxWebhooks == 2
MaxFetchWebhooks == 3

Keys == {"t1", "t2"}
ExIds == {"x1", "x2"}
Procs == {"p1", "p2"}

(***************************************************************************)
(* python.storage (imported at lines 31-36, not part of the sources).      *)
(* A queue exists from its first push on and stays when it is emptied.     *)
(***************************************************************************)
Categories ==
    {"connection-msg", "didexchange-msg", "credential-msg", "presentation-msg",
     "revocation-registry-msg", "revocation-notification-msg",
     "problem-report-msg", "oob-inviation-msg"}

push_resource(s, data_id, data_type, data) ==
    IF <<data_id, data_type>> \in DOMAIN s
    THEN [s EXCEPT ![<<data_id, data_type>>] = Append(@, data)]
    ELSE s @@ (<<data_id, data_type>> :> <<data>>)

\* None is found = FALSE; otherwise the list stored under the pair.
get_resource(s, data_id, data_type) ==
    IF <<data_id, data_type>> \in DOMAIN s
    THEN [found |-> TRUE, list |-> s[<<data_id, data_type>>]]
    ELSE [found |-> FALSE, list |-> <<>>]

\* Removes and returns the head; None (found = FALSE) when there is none.
pop_resource(s, data_id, data_type) ==
    IF <<data_id, data_type>> \in DOMAIN s /\ Len(s[<<data_id, data_type>>]) > 0
    THEN [found |-> TRUE,
          msg   |-> Head(s[<<data_id, data_type>>]),
          store |-> [s EXCEPT ![<<data_id, data_type>>] = Tail(@)]]
    ELSE [found |-> FALSE, msg |-> [none |-> TRUE], store |-> s]

Queue(s, data_id, data_type) == get_resource(s, data_id, data_type).list

\* Removes and returns the payload pushed last among all ids of the
\* category; None (found = FALSE) when the category holds none.  The agent's
\* stamp updated_at grows with every notification.
pop_resource_latest(s, data_type) ==
    LET keys == {kc \in DOMAIN s : kc[2] = data_type /\ Len(s[kc]) > 0}
        last(kc) == s[kc][Len(s[kc])]
        newest == CHOOSE kc \in keys :
                      \A o \in keys :
                          last(o)["updated_at"] <= last(kc)["updated_at"]
    IN  IF keys = {}
        THEN [found |-> FALSE, id |-> "none", msg |-> [none |-> TRUE],
              store |-> s]
        ELSE [found |-> TRUE, id |-> newest[1], msg |-> last(newest),
              store |-> [s EXCEPT ![newest] = SubSeq(@, 1, Len(@) - 1)]]

(***************************************************************************)
(* Webhook receiver.                                                       *)
(***************************************************************************)
Has(message, field) == field \in DOMAIN message

\* Variant: the topic used as it came, without the replace.
HandlerTopicVerbatim(topic) == topic

\* topic.replace("-", "_")
HandlerTopic(topic) ==
    [i \in DOMAIN topic |-> IF topic[i] = "-" THEN "_" ELSE topic[i]]

\* f"handle_{handler_topic}"
HandlerName(topic) == <<"handle", "_">> \o HandlerTopic(topic)

\* The attributes of the backchannel object whose names start with handle_.
WebhookHandlers ==
    {<<"handle", "_", "connections">>,
     <<"handle", "_", "revocation", "_", "notification">>,
     <<"handle", "_", "issue", "_", "credential">>,
     <<"handle", "_", "issue", "_", "credential", "_", "v2", "_", "0">>,
     <<"handle", "_", "present", "_", "proof", "_", "v2", "_", "0">>,
     <<"handle", "_", "present", "_", "proof">>,
     <<"handle", "_", "revocation", "_", "registry">>,
     <<"handle", "_", "oob", "_", "invitation">>,
     <<"handle", "_", "problem", "_", "report">>}

CommandHandlers ==
    {<<"handle", "_", "webhook">>,
     <<"handle", "_", "out", "_", "of", "_", "band", "_", "POST">>,
     <<"handle", "_", "did", "_", "exchange", "_", "POST">>,
     <<"handle", "_", "issue", "_", "credential", "_", "v2", "_", "POST">>,
     <<"handle", "_", "proof", "_", "v2", "_", "POST">>}

Pushed(s) == [fault |-> "none", store |-> s]
Faulted(f, s) == [fault |-> f, store |-> s]

\* A handler that reads message[field] and pushes under it.
PushUnder(s, message, field, data_type) ==
    IF ~Has(message, field)
    THEN Faulted("KeyError", s)
    ELSE Pushed(push_resource(s, message[field], data_type, message))

handle_connections(s, message) ==
    IF Has(message, "request_id")
    THEN PushUnder(s, message, "request_id", "didexchange-msg")
    ELSE IF ~Has(message, "connection_protocol")
    THEN Faulted("KeyError", s)
    ELSE IF message["connection_protocol"] = "didexchange/1.0"
    THEN PushUnder(s, message, "invitation_msg_id", "didexchange-msg")
    ELSE IF message["connection_protocol"] = "connections/1.0"
    THEN PushUnder(s, message, "connection_id", "connection-msg")
    ELSE Faulted("Exception", s)

handle_revocation_notification(s, message) ==
    PushUnder(s, message, "thread_id", "revocation-notification-msg")

\* Variant: message.get("thread_id") in place of message["thread_id"], so a
\* notification without the field is stored under the key None.
handle_issue_credential_get(s, message) ==
    LET thread_id == IF Has(message, "thread_id")
                     THEN message["thread_id"] ELSE "None"
        first == push_resource(s, thread_id, "credential-msg", message)
    IN  IF Has(message, "revocation_id")
        THEN Pushed(push_resource(first, thread_id,
                                  "revocation-registry-msg", message))
        ELSE Pushed(first)

\* Variant: the handler gives the event loop back after its first push; the
\* push under the revocation registry category is not part of the step.
handle_issue_credential_suspended(s, message) ==
    PushUnder(s, message, "thread_id", "credential-msg")

handle_issue_credential(s, message) ==
    LET first == PushUnder(s, message, "thread_id", "credential-msg")
    IN  IF first.fault = "none" /\ Has(message, "revocation_id")
        THEN Pushed(push_resource(first.store, message["thread_id"],
                                  "revocation-registry-msg", message))
        ELSE first

\* Variant: the version 2 handler without the push under the revocation
\* registry category.
handle_issue_credential_v2_0_unmirrored(s, message) ==
    PushUnder(s, message, "thread_id", "credential-msg")

handle_issue_credential_v2_0(s, message) ==
    LET first == PushUnder(s, message, "thread_id", "credential-msg")
    IN  IF first.fault = "none" /\ Has(message, "revocation_id")
        THEN Pushed(push_resource(first.store, message["thread_id"],
                                  "revocation-registry-msg", message))
        ELSE first

handle_present_proof_v2_0(s, message) ==
    PushUnder(s, message, "thread_id", "presentation-msg")

handle_present_proof(s, message) ==
    PushUnder(s, message, "thread_id", "presentation-msg")

handle_revocation_registry(s, message) ==
    PushUnder(s, message, "cred_def_id", "revocation-registry-msg")

handle_oob_invitation(s, message) ==
    PushUnder(s, message, "invitation_id", "oob-inviation-msg")

\* Variant: the category of handle_present_proof left in after a copy.
handle_problem_report_copied(s, message) ==
    PushUnder(s, message, "thread_id", "presentation-msg")

handle_problem_report(s, message) ==
    PushUnder(s, message, "thread_id", "problem-report-msg")

\* await method(payload) for the method getattr found.
CallHandler(handler, s, payload) ==
    CASE handler = <<"handle", "_", "connections">> ->
            handle_connections(s, payload)
      [] handler = <<"handle", "_", "revocation", "_", "notification">> ->
            handle_revocation_notification(s, payload)
      [] handler = <<"handle", "_", "issue", "_", "credential">> ->
            handle_issue_credential(s, payload)
      [] handler = <<"handle", "_", "issue", "_", "credential", "_", "v2", "_", "0">> ->
            handle_issue_credential_v2_0(s, payload)
      [] handler = <<"handle", "_", "present", "_", "proof", "_", "v2", "_", "0">> ->
            handle_present_proof_v2_0(s, payload)
      [] handler = <<"handle", "_", "present", "_", "proof">> ->
            handle_present_proof(s, payload)
      [] handler = <<"handle", "_", "revocation", "_", "registry">> ->
            handle_revocation_registry(s, payload)
      [] handler = <<"handle", "_", "oob", "_", "invitation">> ->
            handle_oob_invitation(s, payload)
      [] handler = <<"handle", "_", "problem", "_", "report">> ->
            handle_problem_report(s, payload)
      \* a command handler called with a dict: command.operation does not exist
      [] OTHER -> Faulted("AttributeError", s)

\* handle_webhook: which handler ran ("none": discarded) and what it did.
handle_webhook(s, topic, payload) ==
    IF topic # <<"webhook">>
    \* getattr(self, handler, None) is not None
    THEN IF HandlerName(topic) \in WebhookHandlers \cup CommandHandlers
         THEN [handler |-> HandlerName(topic),
               out     |-> CallHandler(HandlerName(topic), s, payload)]
         ELSE [handler |-> <<"none">>, out |-> Pushed(s)]
    ELSE [handler |-> <<"none">>, out |-> Pushed(s)]

\* _receive_webhook: web.Response(text="") is built only when handle_webhook
\* returns; a fault leaves the answer to the HTTP server, which sends 500.
receive_webhook_status(fault) == IF fault = "none" THEN 200 ELSE 500

(***************************************************************************)
(* Vocabulary translator (response direction).                             *)
(***************************************************************************)
connectionStateTranslationDict ==
    [invitation |-> "invited", request |-> "requested",
     response |-> "responded", active |-> "complete"]

issueCredentialStateTranslationDict ==
    [proposal_sent |-> "proposal-sent", proposal_received |-> "proposal-received",
     offer_sent |-> "offer-sent", offer_received |-> "offer-received",
     request_sent |-> "request-sent", request_received |-> "request-received",
     credential_issued |-> "credential-issued",
     credential_received |-> "credential-received",
     credential_acked |-> "done"]

presentProofStateTranslationDict ==
    [request_sent |-> "request-sent", request_received |-> "request-received",
     proposal_sent |-> "proposal-sent", proposal_received |-> "proposal-received",
     presentation_sent |-> "presentation-sent",
     presentation_received |-> "presentation-received",
     reject_sent |-> "reject-sent", verified |-> "done",
     presentation_acked |-> "done"]

didExchangeResponderStateTranslationDict ==
    [initial |-> "invitation-sent", invitation |-> "invitation-sent",
     request |-> "request-received", response |-> "response-sent",
     active |-> "completed", completed |-> "completed"]
    @@ ("?" :> "abandoned")

didExchangeRequesterStateTranslationDict ==
    [initial |-> "invitation-sent", invitation |-> "invitation-received",
     request |-> "request-sent", response |-> "response-received",
     active |-> "completed"]
    @@ ("?" :> "abandoned")

\* The words of the keys and values that are made of more than one word:
\* str.replace and the "in" test on the text work on parts of them.
Composite ==
    [request_id |-> <<"request", "_id">>,
     invitation_key |-> <<"invitation", "_key">>,
     invitation_mode |-> <<"invitation", "_mode">>,
     inviter_agent |-> <<"inviter", "_agent">>,
     my_invitee |-> <<"my_", "invitee">>,
     not_their_role |-> <<"not_", "their_role">>]

Words(txt) == IF txt \in DOMAIN Composite THEN Composite[txt] ELSE <<txt>>

\* txt in s, for a key or a string value s.
Within(s, txt) == \E i \in DOMAIN Words(s) : Words(s)[i] = txt

RECURSIVE Joined(_)
Joined(ws) == IF Len(ws) = 0 THEN "" ELSE Head(ws) \o Joined(Tail(ws))

\* s.replace(old, new), for a key or a string value s.
Replaced(s, old, new) ==
    Joined([i \in DOMAIN Words(s) |->
               IF Words(s)[i] = old THEN new ELSE Words(s)[i]])

\* The text of the JSON object mentions txt (in a key or in a value).
Mentions(data, txt) ==
    \E f \in DOMAIN data \ {"updated_at"} :
        Within(f, txt) \/ Within(data[f], txt)

\* replace_state_values: only the "state": "<old>" pair is rewritten.
replace_state_values(data, old_state, new_state) ==
    [data EXCEPT !["state"] = IF @ = old_state THEN new_state ELSE @]

\* data.replace(old, new): every occurrence of the text is rewritten, in
\* keys and in values alike.
replace_everywhere(data, old, new) ==
    LET key(f) == IF f = "updated_at" THEN f ELSE Replaced(f, old, new)
    IN  [g \in {key(f) : f \in DOMAIN data} |->
            LET f == CHOOSE f \in DOMAIN data : key(f) = g
            IN  IF f = "updated_at" THEN data[f]
                ELSE Replaced(data[f], old, new)]

Translated(data) == [fault |-> "none", data |-> data]
TranslationFault(f, data) == [fault |-> f, data |-> data]

\* The did-exchange table the their_role marker selects; "unbound" when the
\* marker is there and names neither role.
de_state_trans_method(data) ==
    IF Mentions(data, "their_role")
    THEN IF Mentions(data, "invitee") THEN "responder"
         ELSE IF Mentions(data, "inviter") THEN "requester"
         ELSE "unbound"
    ELSE "responder"

DidExchangeTranslation(data) ==
    LET which == de_state_trans_method(data)
        table == IF which = "requester"
                 THEN didExchangeRequesterStateTranslationDict
                 ELSE didExchangeResponderStateTranslationDict
    IN  IF which = "unbound" THEN TranslationFault("UnboundLocalError", data)
        ELSE IF data["state"] \notin DOMAIN table
        THEN TranslationFault("KeyError", data)
        ELSE Translated(replace_state_values(data, data["state"],
                                             table[data["state"]]))

agent_state_translation(topic, data) ==
    IF ~Has(data, "state") THEN Translated(data)
    ELSE IF topic = "connection"
    THEN IF Mentions(data, "didexchange/1.0")
         THEN DidExchangeTranslation(data)
         ELSE IF data["state"] \notin DOMAIN connectionStateTranslationDict
         THEN TranslationFault("KeyError", data)
         ELSE Translated(replace_everywhere(data, data["state"],
                  connectionStateTranslationDict[data["state"]]))
    ELSE IF topic = "issue-credential"
    THEN IF data["state"] \notin DOMAIN issueCredentialStateTranslationDict
         THEN TranslationFault("KeyError", data)
         ELSE Translated(replace_everywhere(data, data["state"],
                  issueCredentialStateTranslationDict[data["state"]]))
    ELSE IF topic = "proof"
    THEN IF data["state"] \notin DOMAIN presentProofStateTranslationDict
         THEN TranslationFault("KeyError", data)
         ELSE Translated(replace_state_values(data, data["state"],
                  presentProofStateTranslationDict[data["state"]]))
    ELSE IF topic \in {"out-of-band", "did-exchange"}
    THEN DidExchangeTranslation(data)
    ELSE Translated(data)

(***************************************************************************)
(* move_field_to_top_level.  Here a JSON value carries its kind, and an    *)
(* object keeps its keys in the order json.loads read them.                *)
(***************************************************************************)
JString(text) == [kind |-> "string", text |-> text]
JObject(keys, val) == [kind |-> "object", keys |-> keys, val |-> val]

\* The elements of the set ks in a sequence.
RECURSIVE KeySeq(_)
KeySeq(ks) ==
    IF ks = {} THEN <<>>
    ELSE LET k == CHOOSE k \in ks : TRUE IN <<k>> \o KeySeq(ks \ {k})

\* key in obj
HasKey(obj, key) == \E i \in DOMAIN obj.keys : obj.keys[i] = key

\* field_to_move in resp_json[key]: "true", "false", or the TypeError of a
\* value that is not a container.
InValue(v, field) ==
    CASE v.kind = "object" -> IF HasKey(v, field) THEN "true" ELSE "false"
      [] v.kind = "string" -> IF Within(v.text, field) THEN "true" ELSE "false"
      [] v.kind = "list" ->
            IF \E i \in DOMAIN v.items : v.items[i] = JString(field)
            THEN "true" ELSE "false"
      [] OTHER -> "TypeError"

\* return resp_text
SameText(resp_json) == [fault |-> "none", dumped |-> FALSE, data |-> resp_json]
MoveFault(f, resp_json) == [fault |-> f, dumped |-> FALSE, data |-> resp_json]

\* The loop over the keys of resp_json, from the i-th key on.
RECURSIVE FindAndCopy(_, _, _)
FindAndCopy(resp_json, field_to_move, i) ==
    IF i > Len(resp_json.keys) THEN SameText(resp_json)
    ELSE LET v == resp_json.val[resp_json.keys[i]]
             found == InValue(v, field_to_move)
         IN  IF found = "TypeError" THEN MoveFault("TypeError", resp_json)
             ELSE IF found = "false"
             THEN FindAndCopy(resp_json, field_to_move, i + 1)
             ELSE IF v.kind # "object" THEN MoveFault("TypeError", resp_json)
             \* return json.dumps(resp_json)
             ELSE [fault |-> "none", dumped |-> TRUE,
                   data |-> JObject(
                      Append(resp_json.keys, field_to_move),
                      resp_json.val @@
                          (field_to_move :> v.val[field_to_move]))]

move_field_to_top_level(resp_json, field_to_move) ==
    IF HasKey(resp_json, field_to_move) THEN SameText(resp_json)
    ELSE FindAndCopy(resp_json, field_to_move, 1)

(***************************************************************************)
(* Program constants and configuration.                                    *)
(***************************************************************************)
MAX_TIMEOUT == 5
\* defaults of swap_thread_id_for_exchange_id
wait_time == 20
sleep_time == 1
\* expected_agent_state(..., wait_time=60.0) with sleep_time 0.5:
\* range(int(wait_time / sleep_time))
expected_polls == 120

aip_version == "AIP10"
auto_respond_credential_proposal == FALSE
auto_respond_credential_offer == FALSE
auto_respond_credential_request == FALSE

(***************************************************************************)
(* The event loop.  A coroutine that awaits asyncio.sleep or an admin      *)
(* request is suspended and the loop runs whatever else is ready.          *)
(***************************************************************************)
WaitPcs ==
    {"swap", "exp_sleep", "exp_get", "sleep1", "admin", "fetch", "lookup",
     "create", "wallet_get", "wallet_create", "latest"}

\* Variant: time.sleep in the polling loops, which keeps the event loop.
SuspendedBlockingSleep(pcv) == pcv \in WaitPcs \ {"swap", "fetch"}

\* The coroutine at pcv has handed the event loop back.
Suspended(pcv) == pcv \in WaitPcs

\* No coroutine other than p's keeps the event loop.
LoopFreeFor(p) ==
    \A q \in Procs \ {p} : pc[q] \in {"idle", "done", "fault"} \/ Suspended(pc[q])

LoopFree == \A q \in Procs : pc[q] \in {"idle", "done", "fault"} \/ Suspended(pc[q])

(***************************************************************************)
(* Rendezvous: swap_thread_id_for_exchange_id, one pass of its loop with   *)
(* the counter at t, up to the sleep, the return or the raise.             *)
(***************************************************************************)
SwapOut(kind, read, ex, fault) ==
    [kind |-> kind, read |-> read, ex_id |-> ex, fault |-> fault]

\* Variant: the loop without the raise after it; the function falls through
\* and returns the None it started with.
swap_without_raise(s, thread_id, data_type, id_txt, t) ==
    LET msg == get_resource(s, thread_id, data_type)
    IN  IF t <= wait_time
        THEN IF ~msg.found
             THEN SwapOut("sleep", TRUE, "none", "none")
             ELSE IF Len(msg.list) = 0
             THEN SwapOut("fault", TRUE, "none", "IndexError")
             ELSE IF ~Has(msg.list[1], id_txt)
             THEN SwapOut("fault", TRUE, "none", "KeyError")
             ELSE SwapOut("return", TRUE, msg.list[1][id_txt], "none")
        ELSE SwapOut("return", FALSE, "none", "none")

\* Variant: the rendezvous takes the id of the newest notification of the
\* pair (msg[-1]) instead of the oldest.
swap_newest_notification(s, thread_id, data_type, id_txt, t) ==
    LET msg == get_resource(s, thread_id, data_type)
    IN  IF t <= wait_time
        THEN IF ~msg.found
             THEN SwapOut("sleep", TRUE, "none", "none")
             ELSE IF Len(msg.list) = 0
             THEN SwapOut("fault", TRUE, "none", "IndexError")
             ELSE IF ~Has(msg.list[Len(msg.list)], id_txt)
             THEN SwapOut("fault", TRUE, "none", "KeyError")
             ELSE IF t >= wait_time
             THEN SwapOut("fault", TRUE, msg.list[Len(msg.list)][id_txt],
                          "TimeoutError")
             ELSE SwapOut("return", TRUE, msg.list[Len(msg.list)][id_txt],
                          "none")
        ELSE SwapOut("fault", FALSE, "none", "TimeoutError")

\* Variant: the rendezvous reads the category under whatever id holds it,
\* not under the thread id of the command.
swap_any_thread_id(s, thread_id, data_type, id_txt, t) ==
    LET keys == {kc \in DOMAIN s : kc[2] = data_type}
        msg == IF keys = {} THEN get_resource(s, thread_id, data_type)
               ELSE get_resource(s, (CHOOSE kc \in keys : TRUE)[1],
                                 data_type)
    IN  IF t <= wait_time
        THEN IF ~msg.found
             THEN SwapOut("sleep", TRUE, "none", "none")
             ELSE IF Len(msg.list) = 0
             THEN SwapOut("fault", TRUE, "none", "IndexError")
             ELSE IF ~Has(msg.list[1], id_txt)
             THEN SwapOut("fault", TRUE, "none", "KeyError")
             ELSE IF t >= wait_time
             THEN SwapOut("fault", TRUE, msg.list[1][id_txt], "TimeoutError")
             ELSE SwapOut("return", TRUE, msg.list[1][id_txt], "none")
        ELSE SwapOut("fault", FALSE, "none", "TimeoutError")

swap_thread_id_for_exchange_id(s, thread_id, data_type, id_txt, t) ==
    LET msg == get_resource(s, thread_id, data_type)
    IN  IF t <= wait_time
        THEN IF ~msg.found
             THEN SwapOut("sleep", TRUE, "none", "none")        \* TypeError
             ELSE IF Len(msg.list) = 0
             THEN SwapOut("fault", TRUE, "none", "IndexError")
             ELSE IF ~Has(msg.list[1], id_txt)
             THEN SwapOut("fault", TRUE, "none", "KeyError")
             ELSE IF t >= wait_time
             THEN SwapOut("fault", TRUE, msg.list[1][id_txt], "TimeoutError")
             ELSE SwapOut("return", TRUE, msg.list[1][id_txt], "none")
        ELSE SwapOut("fault", FALSE, "none", "TimeoutError")

(***************************************************************************)
(* Commands.                                                               *)
(***************************************************************************)
Command(method, topic, operation, record_id) ==
    [method |-> method, topic |-> topic, operation |-> operation,
     record_id |-> record_id]

\* command.data; None when the harness sent none.
NoData == [none |-> TRUE]

DataCommand(method, topic, operation, record_id, data) ==
    [method |-> method, topic |-> topic, operation |-> operation,
     record_id |-> record_id, data |-> data]

DataOf(c) == IF "data" \in DOMAIN c THEN c.data ELSE NoData

\* command.record_id is not None.
HasRecordId(c) == c.record_id # "none"

issueCredentialv2OperationTranslationDict ==
    [store |-> "store", issue |-> "issue"]
    @@ ("send-proposal" :> "send-proposal") @@ ("send-offer" :> "send-offer")
    @@ ("send-request" :> "send-request")

proofv2OperationTranslationDict ==
    ("create-send-connectionless-request" :> "create-request")
    @@ ("send-presentation" :> "send-presentation")
    @@ ("send-request" :> "send-request")
    @@ ("verify-presentation" :> "verify-presentation")
    @@ ("send-proposal" :> "send-proposal")

TopicTranslationDict ==
    ("issue-credential" :> "/issue-credential/")
    @@ ("issue-credential-v2" :> "/issue-credential-2.0/")
    @@ ("proof-v2" :> "/present-proof-2.0/")

\* The operation table a 2.0 topic looks its operation up in.
OperationTable(c) ==
    IF c.topic = "issue-credential-v2"
    THEN issueCredentialv2OperationTranslationDict
    ELSE proofv2OperationTranslationDict

\* Variant: only the connection steps look at their flag.
AutoShortCircuitConnectionsOnly(c) ==
    /\ auto.auto_accept_requests
    /\ \/ c.topic = "connection" /\ c.operation = "accept-request"
       \/ c.topic = "did-exchange" /\ c.operation = "send-response"

\* The auto flag of the requested step is set: the command answers by
\* itself.
AutoShortCircuit(c) ==
    CASE c.topic = "connection" ->
            c.operation = "accept-request" /\ auto.auto_accept_requests
      [] c.topic = "did-exchange" ->
            c.operation = "send-response" /\ auto.auto_accept_requests
      [] c.topic \in {"issue-credential", "issue-credential-v2"} ->
            \/ /\ auto.auto_respond_credential_proposal
               /\ c.operation = "send-offer" /\ HasRecordId(c)
            \/ auto.auto_respond_credential_offer /\ c.operation = "send-request"
            \/ auto.auto_respond_credential_request /\ c.operation = "issue"
      [] c.topic \in {"proof", "proof-v2"} ->
            \/ /\ auto.auto_respond_presentation_proposal
               /\ c.operation = "send-request" /\ HasRecordId(c)
            \/ /\ auto.auto_respond_presentation_request
               /\ c.operation = "send-presentation"
      [] OTHER -> FALSE

\* Variant: no command waits for a state of its record.
RequiredStateNever(c) == "none"

\* The native state expected_agent_state waits for before the POST of c;
\* "none" when the command does not wait.
RequiredState(c) ==
    IF c.topic = "connection" /\ c.operation = "accept-request"
       /\ ~auto.auto_accept_requests
    THEN "request"
    ELSE IF c.topic = "issue-credential" /\ HasRecordId(c)
            /\ c.operation = "issue" /\ ~auto.auto_respond_credential_request
    THEN "request_received"
    ELSE IF c.topic = "proof" /\ HasRecordId(c)
            /\ c.operation = "verify-presentation"
            /\ ~auto.auto_respond_presentation_request
    THEN "presentation_received"
    ELSE "none"

\* The POST command calls swap_thread_id_for_exchange_id.
PostUsesRendezvous(c) ==
    /\ HasRecordId(c)
    /\ \/ /\ c.topic = "issue-credential"
          /\ c.operation \in {"send-offer", "send-request", "issue", "store"}
       \/ c.topic \in {"issue-credential-v2", "proof-v2"}
       \/ /\ c.topic = "proof"
          /\ c.operation \in {"send-presentation", "send-request",
                               "verify-presentation", "remove"}
          /\ "~service" \notin DOMAIN DataOf(c)

\* A connectionless proof: the exchange id comes with the "~service"
\* decorator of the data and the rendezvous is not used.
ServiceDecorated(c) ==
    /\ c.topic = "proof" /\ HasRecordId(c)
    /\ c.operation \in {"send-presentation", "send-request",
                         "verify-presentation", "remove"}
    /\ "~service" \in DOMAIN DataOf(c)

\* make_agent_GET_request_response: the category a fetch topic pops from.
FetchCategory ==
    [connection |-> "connection-msg", credential |-> "credential-msg",
     proof |-> "presentation-msg"]
    @@ ("did-exchange" :> "didexchange-msg")
    @@ ("issue-credential" :> "credential-msg")
    @@ ("revocation-registry" :> "revocation-registry-msg")
    @@ ("revocation-notification" :> "revocation-notification-msg")

\* The fetch topics whose result goes through agent_state_translation.
FetchTranslated == {"did-exchange", "proof"}

Way(kind, fault) == [kind |-> kind, fault |-> fault]

\* get_acapy_version_as_float: the version text (a sequence of characters;
\* <<>> when no version is known) as a number, in tenths.  A leading "0"
\* is dropped, the dots are dropped, and what follows a "-" is replaced by
\* ".1"; float() ignores the line end readline left.
get_acapy_version_as_float(version) ==
    LET Digit == ("0" :> 0) @@ ("1" :> 1) @@ ("2" :> 2) @@ ("3" :> 3)
                 @@ ("4" :> 4) @@ ("5" :> 5) @@ ("6" :> 6) @@ ("7" :> 7)
                 @@ ("8" :> 8) @@ ("9" :> 9)
        stripped == IF version[1] = "0" THEN Tail(version)
                    ELSE version
        joined == SelectSeq(stripped, LAMBDA ch : ch # ".")
        dashes == {i \in DOMAIN joined : joined[i] = "-"}
        first == CHOOSE i \in dashes : \A j \in dashes : i <= j
        whole == IF dashes = {} THEN SelectSeq(joined, LAMBDA ch : ch # "\n")
                 ELSE SubSeq(joined, 1, first - 1)
        value[i \in 0..Len(whole)] ==
            IF i = 0 THEN 0 ELSE 10 * value[i - 1] + Digit[whole[i]]
    IN  IF Len(version) = 0 THEN [fault |-> "none", tenths |-> 0]
        ELSE IF \/ \E i \in DOMAIN whole : whole[i] \notin DOMAIN Digit
                \/ Len(whole) = 0 /\ dashes = {}
        THEN [fault |-> "ValueError", tenths |-> 0]
        ELSE [fault |-> "none",
              tenths |-> 10 * value[Len(whole)]
                         + (IF dashes = {} THEN 0 ELSE 1)]

\* get_agent_operation_acapy_version_based for topic revocation: the
\* operation (path, and the query as name and the pieces its value is
\* concatenated of) and the data of the admin request.
get_agent_operation_acapy_version_based(version, operation, data) ==
    LET comparibleVersion == get_acapy_version_as_float(version)
        Lower(b) == IF b THEN "true" ELSE "false"
        Out(path, query, admin_data) ==
            LET text[i \in 0..Len(query)] ==
                    IF i = 0 THEN path
                    ELSE text[i - 1]
                         \o <<IF i = 1 THEN "?" ELSE "&", query[i][1], "=">>
                         \o query[i][2]
            IN  [fault |-> "none", path |-> path, query |-> query,
                 agent_operation |-> text[Len(query)], data |-> admin_data]
        Fault(f) == [fault |-> f, path |-> <<>>, query |-> <<>>,
                     agent_operation |-> <<>>, data |-> NoData]
        Missing(fields) == \E f \in fields : f \notin DOMAIN data
        notify == IF "notify_connection_id" \in DOMAIN data
                  THEN [notify |-> TRUE,
                        connection_id |-> data["notify_connection_id"]]
                  ELSE <<>>
    IN  IF comparibleVersion.fault # "none" THEN Fault(comparibleVersion.fault)
        ELSE IF operation = "revoke"
        THEN IF comparibleVersion.tenths > 540
             THEN IF data = NoData THEN Fault("TypeError")
                  ELSE IF "cred_ex_id" \in DOMAIN data
                  THEN Out(<<"/revocation/", operation>>, <<>>,
                           [cred_ex_id |-> data["cred_ex_id"]] @@ notify)
                  ELSE IF Missing({"cred_rev_id", "rev_registry_id",
                                   "publish_immediately"})
                  THEN Fault("KeyError")
                  ELSE Out(<<"/revocation/", operation>>, <<>>,
                           [cred_rev_id |-> data["cred_rev_id"],
                            rev_reg_id |-> data["rev_registry_id"],
                            publish |-> Lower(data["publish_immediately"])]
                           @@ notify)
             ELSE IF data = NoData
             THEN Out(<<"/issue-credential/", operation>>, <<>>, NoData)
             ELSE IF Missing({"cred_rev_id", "rev_registry_id",
                              "publish_immediately"})
             THEN Fault("KeyError")
             ELSE Out(<<"/issue-credential/", operation>>,
                      <<<<"cred_rev_id", <<data["cred_rev_id"]>>>>,
                        <<"rev_reg_id", <<data["rev_registry_id"]>>>>,
                        <<"publish", <<data["rev_registry_id"],
                                       Lower(data["publish_immediately"])>>>>>>,
                      NoData)
        ELSE IF operation = "credential-record"
        THEN IF data = NoData THEN Fault("TypeError")
             ELSE IF "cred_ex_id" \in DOMAIN data
             THEN Out(<<"/revocation/", operation>>,
                      <<<<"cred_ex_id", <<data["cred_ex_id"]>>>>>>, data)
             ELSE IF Missing({"cred_rev_id", "rev_registry_id"})
             THEN Fault("KeyError")
             ELSE Out(<<"/revocation/", operation>>,
                      <<<<"cred_rev_id", <<data["cred_rev_id"]>>>>,
                        <<"rev_reg_id", <<data["rev_registry_id"]>>>>>>,
                      NoData)
        ELSE Fault("UnboundLocalError")

\* The revocation commands: the fault of
\* get_agent_operation_acapy_version_based, or the request that follows it.
RevocationWay(c) ==
    LET o == get_agent_operation_acapy_version_based(
                 acapy_version, c.operation, DataOf(c))
    IN  IF o.fault # "none" THEN Way("fault", o.fault)
        ELSE Way("request", "none")

\* make_agent_GET_request_response
FetchWay(c) ==
    IF c.topic \in DOMAIN FetchCategory /\ HasRecordId(c)
    THEN Way("fetch", "none")
    ELSE IF c.topic = "did-exchange" THEN Way("latest", "none")
    ELSE Way("unsupported", "none")

\* The key type of each proof type of a JSON-LD credential.
proofTypeKeyTypeTranslationDict ==
    ("Ed25519Signature2018" :> "ed25519")
    @@ ("BbsBlsSignature2020" :> "bls12381g2")

\* map_test_json_to_admin_api_json, the branch of topic "proof-v2": the
\* admin_data made of the test's data, or the fault raised instead.  A dict
\* is a function of its keys; d.get(k, v) is Get(d, k, v).
map_test_json_to_admin_api_json(topic, operation, data) ==
    LET Get(d, k, v) == IF k \in DOMAIN d THEN d[k] ELSE v
        Out(f, a) == [fault |-> f, admin_data |-> a]
        Service(a) ==
            IF "~service" \in DOMAIN data
            THEN [k \in DOMAIN a \cup {"~service"} |->
                     IF k = "~service" THEN data["~service"] ELSE a[k]]
            ELSE a
    IN  CASE topic = "proof-v2" /\ operation = "send-request" ->
               LET presentation_request_orig ==
                       Get(data, "presentation_request", <<>>)
                   pres_request_data ==
                       Get(presentation_request_orig, "data", <<>>)
                   cred_format ==
                       Get(presentation_request_orig, "format", "None")
                   indy ==
                       [name |-> Get(pres_request_data, "name", "test proof"),
                        version |-> Get(pres_request_data, "version", "1.0"),
                        requested_attributes |->
                            Get(pres_request_data, "requested_attributes",
                                <<>>),
                        requested_predicates |->
                            Get(pres_request_data, "requested_predicates",
                                <<>>)]
                   presentation_request ==
                       IF cred_format = "indy"
                       THEN "indy" :>
                               (IF "non_revoked" \in DOMAIN pres_request_data
                                THEN indy @@
                                     ("non_revoked" :>
                                      pres_request_data["non_revoked"])
                                ELSE indy)
                       ELSE "dif" :> pres_request_data
                   admin_data ==
                       [comment |-> presentation_request_orig["comment"],
                        trace |-> FALSE,
                        presentation_request |-> presentation_request]
               IN  IF cred_format \notin {"indy", "json-ld"}
                   THEN Out("Exception", <<>>)
                   ELSE IF "comment" \notin DOMAIN presentation_request_orig
                   THEN Out("KeyError", <<>>)
                   ELSE Out("none", Service(
                            IF "connection_id"
                                   \in DOMAIN presentation_request_orig
                            THEN admin_data @@
                                 ("connection_id" :>
                                  presentation_request_orig["connection_id"])
                            ELSE admin_data))
          [] topic = "proof-v2" /\ operation = "send-presentation" ->
               LET cred_format == Get(data, "format", "None")
                   presentation_data ==
                       IF cred_format = "indy"
                       THEN "indy" :>
                               [k \in {"requested_attributes",
                                       "requested_predicates",
                                       "self_attested_attributes"} |->
                                   Get(data, k, <<>>)]
                       ELSE "dif" :>
                               [k \in DOMAIN data \ {"format"} |-> data[k]]
               IN  IF cred_format \notin {"indy", "json-ld"}
                   THEN Out("Exception", <<>>)
                   ELSE Out("none", Service(
                            presentation_data @@
                            ("comment" :>
                             Get(data, "comment", "some comment"))))
          [] topic = "proof-v2"
             /\ operation \notin {"send-request", "send-presentation"} ->
               Out("none", Service(data))

\* make_agent_POST_request: what the command does up to its first await.
PostWay(c) ==
    IF c.topic = "connection"
    THEN IF "mediator_connection_id" \in DOMAIN DataOf(c)
         THEN Way("mediation", "none")
         ELSE IF c.operation \in {"create-invitation", "receive-invitation"}
         THEN Way("request", "none")
         ELSE IF c.operation \in {"accept-invitation", "accept-request",
                                  "remove", "start-introduction", "send-ping"}
         THEN IF RequiredState(c) # "none" THEN Way("expect", "none")
              ELSE IF AutoShortCircuit(c) THEN Way("synthetic", "none")
              ELSE Way("sleep1", "none")
         ELSE Way("unsupported", "none")
    ELSE IF c.topic \in {"schema", "credential-definition"}
    THEN IF DataOf(c) = NoData THEN Way("fault", "AttributeError")
         ELSE Way("lookup", "none")
    ELSE IF c.topic \in {"issue-credential", "proof"}
    THEN IF AutoShortCircuit(c) THEN Way("synthetic", "none")
         ELSE IF PostUsesRendezvous(c) THEN Way("rendezvous", "none")
         ELSE IF ServiceDecorated(c)
         THEN IF RequiredState(c) # "none" THEN Way("expect", "none")
              ELSE Way("sleep1", "none")
         ELSE IF /\ c.topic = "issue-credential" /\ HasRecordId(c)
                 /\ c.operation = "revoke"
                 /\ "rev_registry_id" \notin DOMAIN DataOf(c)
         THEN Way("fault", IF DataOf(c) = NoData THEN "TypeError"
                           ELSE "KeyError")
         ELSE Way("sleep1", "none")
    ELSE IF c.topic \in {"issue-credential-v2", "proof-v2"}
    THEN IF AutoShortCircuit(c) THEN Way("synthetic", "none")
         ELSE IF c.topic = "issue-credential-v2"
                 /\ c.operation = "prepare-json-ld"
         THEN IF DataOf(c) = NoData THEN Way("fault", "TypeError")
              ELSE IF \/ "proof_type" \notin DOMAIN DataOf(c)
                      \/ DataOf(c)["proof_type"]
                            \notin DOMAIN proofTypeKeyTypeTranslationDict
                      \/ "did_method" \notin DOMAIN DataOf(c)
              THEN Way("fault", "KeyError")
              ELSE Way("wallet", "none")
         ELSE IF HasRecordId(c) THEN Way("rendezvous", "none")
         ELSE IF c.operation \notin DOMAIN OperationTable(c)
         THEN Way("fault", "KeyError")
         ELSE IF c.topic = "proof-v2" /\ DataOf(c) # NoData
         THEN LET f == map_test_json_to_admin_api_json(
                           c.topic, c.operation, DataOf(c)).fault
              IN  Way(IF f = "none" THEN "sleep1" ELSE "fault", f)
         ELSE Way("sleep1", "none")
    ELSE IF c.topic = "did-exchange"
    THEN IF c.operation = "send-response"
         THEN IF AutoShortCircuit(c) THEN Way("synthetic", "none")
              ELSE Way("sleep1", "none")
         ELSE IF c.operation = "receive-request-resolvable-did"
         THEN FetchWay(c)
         ELSE IF c.operation = "create-request-resolvable-did"
                 /\ "their_public_did" \notin DOMAIN DataOf(c)
         THEN Way("fault", IF DataOf(c) = NoData THEN "TypeError"
                           ELSE "KeyError")
         ELSE Way("request", "none")
    ELSE IF c.topic = "out-of-band"
    THEN IF DataOf(c) = NoData THEN Way("fault", "TypeError")
         ELSE IF c.operation = "send-invitation-message"
                 /\ "use_public_did" \notin DOMAIN DataOf(c)
         THEN Way("fault", "KeyError")
         ELSE Way("request", "none")
    ELSE IF c.topic = "revocation" THEN RevocationWay(c)
    ELSE Way("unsupported", "none")

\* make_agent_GET_request
GetWay(c) ==
    IF c.topic \in {"status", "version"} THEN Way("local", "none")
    ELSE IF c.topic \in {"issue-credential", "issue-credential-v2", "proof",
                         "proof-v2"}
    THEN Way("rendezvous", "none")
    ELSE IF c.topic = "revocation" THEN RevocationWay(c)
    ELSE IF \/ c.topic \in {"connection", "did", "schema",
                            "credential-definition", "credential",
                            "did-exchange"}
            \/ c.topic = "active-connection" /\ HasRecordId(c)
    THEN Way("request", "none")
    ELSE Way("unsupported", "none")

\* What command c does up to its first await.
Dispatch(c) ==
    CASE c.method = "POST" -> PostWay(c)
      [] c.method = "GET" -> GetWay(c)
      [] c.method = "DELETE" ->
            IF c.topic = "credential" /\ HasRecordId(c)
            THEN Way("request", "none") ELSE Way("unsupported", "none")
      [] c.method = "FETCH" -> FetchWay(c)

\* The (data_type, id_txt) a command passes to the rendezvous.
RendezvousArgs(c) ==
    IF c.topic = "issue-credential"
    THEN [data_type |-> "credential-msg", id_txt |-> "credential_exchange_id"]
    ELSE IF c.topic = "issue-credential-v2"
    THEN [data_type |-> "credential-msg", id_txt |-> "cred_ex_id"]
    ELSE IF c.topic = "proof-v2"
    THEN [data_type |-> "presentation-msg", id_txt |-> "pres_ex_id"]
    ELSE [data_type |-> "presentation-msg",
          id_txt |-> "presentation_exchange_id"]

\* proof: create-send-connectionless-request is sent as create-request.
ProofOperation(c) ==
    IF c.operation = "create-send-connectionless-request"
    THEN "create-request" ELSE c.operation

\* The path expected_agent_state polls for command c.
RecordPath(c, ex) ==
    IF c.topic = "connection" THEN <<"/connections/", c.record_id>>
    ELSE IF c.topic = "issue-credential"
    THEN <<"/issue-credential/records/", ex>>
    ELSE <<"/present-proof/records/", ex>>

\* The agent_operation of command c; ex is what the rendezvous returned.
AdminPath(c, ex) ==
    IF c.topic = "issue-credential"
    THEN IF c.method = "GET"
         THEN <<"/issue-credential/records/", ex>>
         ELSE IF PostUsesRendezvous(c)
         THEN <<"/issue-credential/records/", ex, "/", c.operation>>
         ELSE <<"/issue-credential/", c.operation>>
    ELSE IF c.topic = "proof"
    THEN IF c.method = "GET" THEN <<"/present-proof/records/", ex>>
         ELSE IF PostUsesRendezvous(c) \/ ServiceDecorated(c)
         THEN <<"/present-proof/records/", ex, "/", ProofOperation(c)>>
         ELSE <<"/present-proof/", ProofOperation(c)>>
    ELSE IF c.topic \in {"issue-credential-v2", "proof-v2"}
    THEN IF c.method = "GET"
         THEN <<TopicTranslationDict[c.topic], "records/", ex>>
         ELSE IF HasRecordId(c)
         THEN <<TopicTranslationDict[c.topic], "records/", ex, "/",
                OperationTable(c)[c.operation]>>
         ELSE <<TopicTranslationDict[c.topic],
                OperationTable(c)[c.operation]>>
    ELSE IF c.topic = "connection"
    THEN IF c.method = "GET"
         THEN IF HasRecordId(c) THEN <<"/connections/", c.record_id>>
              ELSE <<"/connections">>
         ELSE IF c.operation \in {"create-invitation", "receive-invitation"}
         THEN <<"/connections/", c.operation>>
         ELSE <<"/connections/", c.record_id, "/", c.operation>>
    ELSE IF c.topic = "did-exchange"
    THEN IF c.method = "GET" THEN <<"/connections/", c.record_id>>
         ELSE IF c.operation = "send-request"
         THEN <<"/didexchange/", c.record_id, "/accept-invitation">>
         ELSE IF c.operation = "send-response"
         THEN <<"/didexchange/", c.record_id, "/accept-request">>
         ELSE IF c.operation = "receive-invitation"
         THEN <<"/didexchange/", c.operation>>
         ELSE IF c.operation = "create-request-resolvable-did"
         THEN <<"/didexchange/", "create-request">>
         ELSE <<"/didexchange/">>
    ELSE IF c.topic = "schema"
    THEN IF c.method = "GET" THEN <<"/schemas/", c.record_id>>
         ELSE <<"/schemas">>
    ELSE IF c.topic = "credential-definition"
    THEN IF c.method = "GET" THEN <<"/credential-definitions/", c.record_id>>
         ELSE <<"/credential-definitions">>
    ELSE IF c.topic = "credential" THEN <<"/credential/", c.record_id>>
    ELSE IF c.topic = "revocation"
    THEN get_agent_operation_acapy_version_based(
             acapy_version, c.operation, DataOf(c)).agent_operation
    ELSE <<"/", c.topic, "/", c.operation>>

Request(p, method, path) == [proc |-> p, method |-> method, path |-> path]

Returned(status, body) == [status |-> status, body |-> body, fault |-> "none"]
Raised(f) == [status |-> 0, body |-> [none |-> TRUE], fault |-> f]

\* return (501, "501: Not Implemented\n\n")
NotImplemented == Returned(501, [text |-> "501: Not Implemented\n\n"])

\* The answer a command gives by itself when its auto flag is set.
Synthetic(c) ==
    Returned(200, [message |-> "auto mode", not_called |-> c.operation])

\* GET status and GET version of a started agent whose version is known.
LocalAnswer(c) ==
    IF c.topic = "status" THEN Returned(200, [status |-> "Active"])
    ELSE Returned(200, [text |-> "acapy_version"])

(***************************************************************************)
(* What the agent's admin API may answer.                                  *)
(***************************************************************************)
AdminResponses ==
    {[status |-> 200, body |-> [state |-> st], fault |-> "none"] :
        st \in {"request_received", "offer_sent", "abandoned"}}
    \cup {[status |-> 404, body |-> [error |-> "not found"], fault |-> "none"],
          [status |-> 0, body |-> [none |-> TRUE], fault |-> "ClientError"]}

\* What the agent may answer to a request of command c, with the states of
\* a connection record or of a presentation exchange record.
AdminResponsesFor(c) ==
    IF c.topic \in {"connection", "did-exchange"}
    THEN {r \in AdminResponses : r.status # 200}
         \cup {[status |-> 200, body |-> [state |-> st], fault |-> "none"] :
                  st \in {"request", "invitation", "abandoned"}}
    ELSE IF c.topic \in {"proof", "proof-v2"}
    THEN {r \in AdminResponses : r.status # 200}
         \cup {[status |-> 200, body |-> [state |-> st], fault |-> "none"] :
                  st \in {"presentation_received", "request_sent",
                          "abandoned"}}
    ELSE AdminResponses

(***************************************************************************)
(* The agent's ledger side: schemas and credential definitions.  An id is  *)
(* the text of its parts joined by ":"; split(":") gives the parts back.   *)
(***************************************************************************)
RECURSIVE JoinColon(_)
JoinColon(parts) ==
    IF Len(parts) = 0 THEN ""
    ELSE IF Len(parts) = 1 THEN parts[1]
    ELSE parts[1] \o ":" \o JoinColon(Tail(parts))


SchemaKey(data) == <<data.schema_name, data.schema_version>>
SchemaId(key) == JoinColon(<<"did", "2", key[1], key[2]>>)

\* The parts of a credential definition id: did:3:CL:<schema>:<tag>, where
\* <schema> stands for the ledger's number of the schema.
CredDefParts(schema_id, tag) ==
    <<"did", "3", "CL",
      IF schema_id = SchemaId(<<"degree", "1.0">>) THEN "11" ELSE "12", tag>>
CredDefId(schema_id, tag) == JoinColon(CredDefParts(schema_id, tag))

\* cred_def_id.split(":")
Split(id) ==
    CHOOSE parts \in {CredDefParts(SchemaId(<<n, v>>), t) :
                          n \in {"degree", "licence"}, v \in {"1.0"},
                          t \in {"tag1", "tag2"}} :
        JoinColon(parts) = id

\* GET /schemas/created?schema_name=..&schema_version=..: "schema_ids"
SchemasCreated(data) ==
    IF SchemaKey(data) \in agent.schemas
    THEN <<SchemaId(SchemaKey(data))>> ELSE <<>>

\* GET /credential-definitions/created?schema_id=..:
\* "credential_definition_ids", every tag of the schema
CredDefsCreated(data) ==
    LET mine == {cd \in agent.cred_defs : cd[1] = data.schema_id}
        ids == {CredDefId(cd[1], cd[2]) : cd \in mine}
    IN  KeySeq(ids)

\* The agent's answers to a create POST: the id at top level, or under
\* "sent"; or a refusal whose text is not JSON; or no answer at all.
CreateAnswers(field, id) ==
    {[status |-> 200, fault |-> "none", json |-> TRUE,
      body |-> JObject(<<field>>, (field :> JString(id)))],
     [status |-> 200, fault |-> "none", json |-> TRUE,
      body |-> JObject(<<"sent">>,
                  ("sent" :> JObject(<<field>>, (field :> JString(id)))))],
     [status |-> 400, fault |-> "none", json |-> FALSE,
      body |-> [text |-> "400: Bad Request"]],
     [status |-> 0, fault |-> "ClientError", json |-> FALSE,
      body |-> [none |-> TRUE]]}

(***************************************************************************)
(* State after construction.                                               *)
(***************************************************************************)
\* The flags as __init__ leaves them.
InitialFlags ==
    [auto_accept_requests |-> FALSE,
     auto_respond_messages |-> FALSE,
     auto_respond_credential_proposal |-> auto_respond_credential_proposal,
     auto_respond_credential_offer |-> auto_respond_credential_offer,
     auto_respond_credential_request |-> auto_respond_credential_request,
     auto_respond_presentation_proposal |-> FALSE,
     auto_respond_presentation_request |-> FALSE]

\* The start argument that sets each flag.
FlagArgument ==
    [auto_accept_requests |-> "--auto-accept-requests",
     auto_respond_messages |-> "--auto-respond-messages",
     auto_respond_credential_proposal |-> "--auto-respond-credential-proposal",
     auto_respond_credential_offer |-> "--auto-respond-credential-offer",
     auto_respond_credential_request |-> "--auto-respond-credential-request",
     auto_respond_presentation_proposal |->
         "--auto-respond-presentation-proposal",
     auto_respond_presentation_request |->
         "--auto-respond-presentation-request"]

NoCall == [fn |-> "none"]

Init ==
    /\ storage = <<>>
    /\ nWebhooks = 0
    /\ whResp = [topic |-> <<"none">>, payload |-> [none |-> TRUE],
                 handler |-> <<"none">>, fault |-> "none", status |-> 0]
    /\ cmd = [p \in Procs |-> Command("none", "none", "none", "none")]
    /\ pc = [p \in Procs |-> "idle"]
    /\ timeout = [p \in Procs |-> 0]
    /\ ex_id = [p \in Procs |-> "none"]
    /\ resp = [p \in Procs |-> Returned(0, [none |-> TRUE])]
    /\ reads = [p \in Procs |-> 0]
    /\ adminLog = {}
    /\ pushLog = {}
    /\ delivered = <<>>
    /\ auto = InitialFlags
    /\ agent = [schemas |-> {}, cred_defs |-> {}]
    /\ admin_resp = [p \in Procs |-> Returned(0, [none |-> TRUE])]
    /\ call = NoCall
    \* file.readline() of ./acapy-version.txt
    /\ acapy_version = <<"0", ".", "7", ".", "4", "\n">>

procVars == <<cmd, pc, timeout, ex_id, resp, reads, adminLog, delivered,
              admin_resp>>
hookVars == <<nWebhooks, whResp, pushLog>>
confVars == <<auto, agent, call, acapy_version>>

(***************************************************************************)
(* _receive_webhook: one request of the agent, handled without suspension. *)
(* The agent stamps each notification (updated_at).                        *)
(***************************************************************************)
Entry(data_id, data_type, msg) ==
    [id |-> data_id, type |-> data_type, msg |-> msg]

\* The entries a handler appended, as (data_id, data_type, message).
NewEntries(old, new) ==
    {Entry(kc[1], kc[2], new[kc][Len(new[kc])]) :
        kc \in {x \in DOMAIN new :
                    Len(new[x]) > Len(Queue(old, x[1], x[2]))}}

ReceiveUpTo(max, topic, base) ==
    /\ nWebhooks < max
    /\ LoopFree
    /\ LET payload == base @@ [updated_at |-> nWebhooks + 1]
           w == handle_webhook(storage, topic, payload)
       IN  /\ storage' = w.out.store
           /\ whResp' = [topic |-> topic, payload |-> payload,
                         handler |-> w.handler, fault |-> w.out.fault,
                         status |-> receive_webhook_status(w.out.fault)]
           /\ pushLog' = pushLog \cup NewEntries(storage, w.out.store)
    /\ nWebhooks' = nWebhooks + 1
    /\ UNCHANGED <<procVars, confVars>>

ReceiveWebhook(topic, base) == ReceiveUpTo(MaxWebhooks, topic, base)

(***************************************************************************)
(* Command coroutines.                                                     *)
(***************************************************************************)
Finish(p, r) ==
    /\ pc' = [pc EXCEPT ![p] = IF r.fault = "none" THEN "done" ELSE "fault"]
    /\ resp' = [resp EXCEPT ![p] = r]

\* The caller's code after the rendezvous returned ex, up to its next await.
AfterRendezvous(p, c, ex) ==
    /\ timeout' = [timeout EXCEPT ![p] = 0]
    /\ IF c.method = "GET"
       THEN /\ pc' = [pc EXCEPT ![p] = "admin"]
            /\ adminLog' = adminLog \cup {Request(p, "GET", AdminPath(c, ex))}
            /\ resp' = resp
       ELSE IF /\ c.topic \in {"issue-credential-v2", "proof-v2"}
               /\ c.operation \notin DOMAIN OperationTable(c)
       THEN /\ Finish(p, Raised("KeyError"))
            /\ adminLog' = adminLog
       ELSE IF /\ c.topic = "proof-v2" /\ DataOf(c) # NoData
               /\ map_test_json_to_admin_api_json(
                      c.topic, c.operation, DataOf(c)).fault # "none"
       THEN /\ Finish(p, Raised(map_test_json_to_admin_api_json(
                                    c.topic, c.operation, DataOf(c)).fault))
            /\ adminLog' = adminLog
       ELSE IF RequiredState(c) # "none"
       THEN /\ pc' = [pc EXCEPT ![p] = "exp_sleep"]
            /\ adminLog' = adminLog
            /\ resp' = resp
       ELSE /\ pc' = [pc EXCEPT ![p] = "sleep1"]
            /\ adminLog' = adminLog
            /\ resp' = resp

\* One pass of the rendezvous loop of command c with the counter at t.
SwapPass(p, c, t) ==
    LET a == RendezvousArgs(c)
        o == swap_thread_id_for_exchange_id(storage, c.record_id, a.data_type,
                                            a.id_txt, t)
        n == reads[p] + (IF o.read THEN 1 ELSE 0)
    IN  /\ ex_id' = [ex_id EXCEPT ![p] = o.ex_id]
        /\ CASE o.kind = "sleep" ->
                  /\ pc' = [pc EXCEPT ![p] = "swap"]
                  /\ timeout' = [timeout EXCEPT ![p] = t + sleep_time]
                  /\ reads' = [reads EXCEPT ![p] = n]
                  /\ UNCHANGED <<resp, adminLog>>
             [] o.kind = "fault" ->
                  /\ Finish(p, Raised(o.fault))
                  /\ timeout' = [timeout EXCEPT ![p] = t]
                  /\ reads' = [reads EXCEPT ![p] = n]
                  /\ UNCHANGED adminLog
             [] o.kind = "return" ->
                  /\ reads' = [reads EXCEPT ![p] = 0]
                  /\ AfterRendezvous(p, c, o.ex_id)
        /\ UNCHANGED <<storage, delivered>>

\* Variant: the fetch takes the newest notification of the pair.
FetchPopNewest(s, c) ==
    LET kc == <<c.record_id, FetchCategory[c.topic]>>
    IN  IF kc \in DOMAIN s /\ Len(s[kc]) > 0
        THEN [found |-> TRUE,
              msg   |-> s[kc][Len(s[kc])],
              store |-> [s EXCEPT ![kc] = SubSeq(@, 1, Len(@) - 1)]]
        ELSE [found |-> FALSE, msg |-> [none |-> TRUE], store |-> s]

\* Variant: the fetch reads the head with get_resource and leaves it queued.
FetchPeek(s, c) ==
    LET kc == <<c.record_id, FetchCategory[c.topic]>>
    IN  IF kc \in DOMAIN s /\ Len(s[kc]) > 0
        THEN [found |-> TRUE, msg |-> s[kc][1], store |-> s]
        ELSE [found |-> FALSE, msg |-> [none |-> TRUE], store |-> s]

\* pop_resource(record_id, "<category>-msg") of the fetch of command c.
FetchPop(s, c) == pop_resource(s, c.record_id, FetchCategory[c.topic])

\* Variant: the loop of the fetch tests i <= MAX_TIMEOUT and polls once more.
FetchPassOnceMore(p, c, i) ==
    LET data_type == FetchCategory[c.topic]
        r == FetchPop(storage, c)
        tr == IF c.topic \in FetchTranslated
              THEN agent_state_translation(c.topic, r.msg)
              ELSE Translated(r.msg)
    IN  /\ storage' = r.store
        /\ reads' = [reads EXCEPT ![p] = i + 1]
        /\ IF r.found
           THEN /\ Finish(p, IF tr.fault = "none" THEN Returned(200, tr.data)
                                                  ELSE Raised(tr.fault))
                /\ timeout' = [timeout EXCEPT ![p] = i]
                /\ delivered' = Append(delivered,
                       [id |-> c.record_id, type |-> data_type, msg |-> r.msg,
                        proc |-> p, fault |-> tr.fault])
           ELSE /\ IF i <= MAX_TIMEOUT
                   THEN /\ pc' = [pc EXCEPT ![p] = "fetch"]
                        /\ timeout' = [timeout EXCEPT ![p] = i + 1]
                        /\ resp' = resp
                   ELSE /\ Finish(p, Returned(200, [empty |-> TRUE]))
                        /\ timeout' = [timeout EXCEPT ![p] = i]
                /\ delivered' = delivered
        /\ UNCHANGED <<ex_id, adminLog>>

\* One pop of make_agent_GET_request_response for command c, after i sleeps.
FetchPass(p, c, i) ==
    LET data_type == FetchCategory[c.topic]
        r == FetchPop(storage, c)
        tr == IF c.topic \in FetchTranslated
              THEN agent_state_translation(c.topic, r.msg)
              ELSE Translated(r.msg)
    IN  /\ storage' = r.store
        /\ reads' = [reads EXCEPT ![p] = i + 1]
        /\ IF r.found
           THEN /\ Finish(p, IF tr.fault = "none" THEN Returned(200, tr.data)
                                                  ELSE Raised(tr.fault))
                /\ timeout' = [timeout EXCEPT ![p] = i]
                /\ delivered' = Append(delivered,
                       [id |-> c.record_id, type |-> data_type, msg |-> r.msg,
                        proc |-> p, fault |-> tr.fault])
           ELSE /\ IF i < MAX_TIMEOUT
                   THEN /\ pc' = [pc EXCEPT ![p] = "fetch"]
                        /\ timeout' = [timeout EXCEPT ![p] = i + 1]
                        /\ resp' = resp
                   ELSE /\ Finish(p, Returned(200, [empty |-> TRUE]))
                        /\ timeout' = [timeout EXCEPT ![p] = i]
                /\ delivered' = delivered
        /\ UNCHANGED <<ex_id, adminLog>>

\* A command that neither reads the store nor needs the rendezvous, up to
\* its first await or to its return.
StartDirect(p, c, w) ==
    /\ CASE w.kind = "unsupported" ->
              Finish(p, NotImplemented) /\ adminLog' = adminLog
         [] w.kind = "synthetic" ->
              Finish(p, Synthetic(c)) /\ adminLog' = adminLog
         [] w.kind = "local" ->
              Finish(p, LocalAnswer(c)) /\ adminLog' = adminLog
         [] w.kind = "fault" ->
              Finish(p, Raised(w.fault)) /\ adminLog' = adminLog
         [] w.kind = "expect" ->
              /\ pc' = [pc EXCEPT ![p] = "exp_sleep"]
              /\ UNCHANGED <<resp, adminLog>>
         [] w.kind = "sleep1" ->
              /\ pc' = [pc EXCEPT ![p] = "sleep1"]
              /\ UNCHANGED <<resp, adminLog>>
         [] w.kind = "request" ->
              /\ pc' = [pc EXCEPT ![p] = "admin"]
              /\ adminLog' = adminLog \cup
                    {Request(p, c.method, AdminPath(c, ex_id[p]))}
              /\ resp' = resp
         [] w.kind = "wallet" ->
              /\ pc' = [pc EXCEPT ![p] = "wallet_get"]
              /\ adminLog' = adminLog \cup {Request(p, "GET", <<"/wallet/did">>)}
              /\ resp' = resp
         [] w.kind = "lookup" ->
              /\ pc' = [pc EXCEPT ![p] = "lookup"]
              /\ adminLog' = adminLog \cup {Request(p, "GET",
                         IF c.topic = "schema" THEN <<"/schemas/created">>
                         ELSE <<"/credential-definitions/created">>)}
              /\ resp' = resp
    /\ ex_id' = [ex_id EXCEPT ![p] =
                    IF ServiceDecorated(c) THEN DataOf(c)["~service"] ELSE @]
    /\ UNCHANGED <<storage, timeout, reads, delivered>>

\* The harness sends command c; its coroutine runs up to its first await.
Start(p, c) ==
    /\ pc[p] = "idle"
    /\ LoopFreeFor(p)
    /\ cmd' = [cmd EXCEPT ![p] = c]
    /\ LET w == Dispatch(c)
       IN  CASE w.kind = "rendezvous" -> SwapPass(p, c, 0)
             [] w.kind = "fetch" -> FetchPass(p, c, 0)
             \* await asyncio.sleep(1) comes before the first pop
             [] w.kind = "latest" ->
                   /\ pc' = [pc EXCEPT ![p] = "latest"]
                   /\ timeout' = [timeout EXCEPT ![p] = 0]
                   /\ UNCHANGED <<storage, ex_id, resp, reads, adminLog,
                                  delivered>>
             [] w.kind \notin {"rendezvous", "fetch", "latest", "mediation"} ->
                   StartDirect(p, c, w)
    /\ UNCHANGED <<admin_resp, hookVars, confVars>>

\* asyncio.sleep(sleep_time) of the rendezvous is over.
SwapPoll(p) ==
    /\ pc[p] = "swap"
    /\ LoopFreeFor(p)
    /\ SwapPass(p, cmd[p], timeout[p])
    /\ UNCHANGED <<cmd, admin_resp, hookVars, confVars>>

\* asyncio.sleep(1) of the fetch is over.
FetchPoll(p) ==
    /\ pc[p] = "fetch"
    /\ LoopFreeFor(p)
    /\ FetchPass(p, cmd[p], timeout[p])
    /\ UNCHANGED <<cmd, admin_resp, hookVars, confVars>>

\* make_agent_GET_request_response for did-exchange without a record id: a
\* sleep is over and the latest notification of a category is popped.  The
\* first pop names message_name when the caller gave one (the POST
\* receive-request-resolvable-did gives "didexchange-msg"); the pops of the
\* loop name "connection-msg".
LatestPoll(p) ==
    /\ pc[p] = "latest"
    /\ LoopFreeFor(p)
    /\ LET c == cmd[p]
           i == timeout[p]
           data_type == IF reads[p] = 0 /\ c.method = "POST"
                        THEN "didexchange-msg" ELSE "connection-msg"
           r == pop_resource_latest(storage, data_type)
           tr == agent_state_translation(c.topic, r.msg)
       IN  /\ storage' = r.store
           /\ reads' = [reads EXCEPT ![p] = @ + 1]
           /\ IF r.found
              THEN /\ Finish(p, IF tr.fault = "none"
                                THEN Returned(200, tr.data)
                                ELSE Raised(tr.fault))
                   /\ timeout' = timeout
                   /\ delivered' = Append(delivered,
                          [id |-> r.id, type |-> data_type, msg |-> r.msg,
                           proc |-> p, fault |-> tr.fault])
              ELSE /\ IF i < MAX_TIMEOUT
                      THEN /\ timeout' = [timeout EXCEPT ![p] = i + 1]
                           /\ UNCHANGED <<pc, resp>>
                      ELSE /\ Finish(p, Returned(200, [empty |-> TRUE]))
                           /\ timeout' = timeout
                   /\ delivered' = delivered
    /\ UNCHANGED <<cmd, ex_id, adminLog, admin_resp, hookVars, confVars>>

\* expected_agent_state: a sleep is over; the next GET of the record is sent
\* or the loop is exhausted and the caller raises.
ExpectedResume(p) ==
    /\ pc[p] = "exp_sleep"
    /\ LoopFreeFor(p)
    /\ IF timeout[p] < expected_polls
       THEN /\ pc' = [pc EXCEPT ![p] = "exp_get"]
            /\ adminLog' = adminLog \cup
                  {Request(p, "GET", RecordPath(cmd[p], ex_id[p]))}
            /\ resp' = resp
       ELSE /\ Finish(p, Raised("Exception"))
            /\ adminLog' = adminLog
    /\ UNCHANGED <<storage, cmd, timeout, ex_id, reads, delivered, admin_resp,
                   hookVars, confVars>>

\* expected_agent_state: the admin API answered the GET of the record.
ExpectedResponse(p) ==
    /\ pc[p] = "exp_get"
    /\ LoopFreeFor(p)
    /\ \E r \in AdminResponsesFor(cmd[p]) :
          /\ admin_resp' = [admin_resp EXCEPT ![p] = r]
          /\ IF r.fault # "none"
             THEN Finish(p, Raised(r.fault)) /\ timeout' = timeout
             ELSE IF r.status = 200 /\ r.body["state"] = RequiredState(cmd[p])
             THEN /\ pc' = [pc EXCEPT ![p] = "sleep1"]
                  /\ timeout' = [timeout EXCEPT ![p] = 0]
                  /\ resp' = resp
             ELSE /\ pc' = [pc EXCEPT ![p] = "exp_sleep"]
                  /\ timeout' = [timeout EXCEPT ![p] = @ + 1]
                  /\ resp' = resp
    /\ UNCHANGED <<storage, cmd, ex_id, reads, adminLog, delivered, hookVars,
                   confVars>>

\* asyncio.sleep(1) before the POST is over: the POST is sent.
SendPost(p) ==
    /\ pc[p] = "sleep1"
    /\ LoopFreeFor(p)
    /\ pc' = [pc EXCEPT ![p] = "admin"]
    /\ adminLog' = adminLog \cup
          {Request(p, "POST", AdminPath(cmd[p], ex_id[p]))}
    /\ UNCHANGED <<storage, cmd, timeout, ex_id, resp, reads, delivered,
                   admin_resp, hookVars, confVars>>

\* The answer r goes through agent_state_translation.
TranslatedAnswer(c, r) ==
    LET tr == agent_state_translation(c.topic, r.body)
    IN  IF tr.fault = "none" THEN Returned(r.status, tr.data)
        ELSE Raised(tr.fault)

\* The answer r goes through move_field_to_top_level(resp_text, "state"),
\* whatever its status; the text of a refusal is not JSON.
PromotedAnswer(c, r) ==
    IF r.status # 200 THEN Raised("JSONDecodeError")
    ELSE LET json == JObject(KeySeq(DOMAIN r.body),
                             [k \in DOMAIN r.body |-> JString(r.body[k])])
             m == move_field_to_top_level(json, "state")
         IN  IF m.fault = "none" THEN Returned(r.status, m.data)
             ELSE Raised(m.fault)

\* What the command makes of the answer r to its request: the commands on
\* the exchange records, on connections and on revocation.
PostProcess(c, r) ==
    CASE c.topic = "issue-credential" ->
            IF r.status = 200 /\ (c.method = "GET" \/ aip_version # "AIP20")
            THEN TranslatedAnswer(c, r) ELSE Returned(r.status, r.body)
      [] \/ c.topic = "proof"
         \/ c.topic = "did-exchange"
         \/ c.topic = "connection" /\ c.method = "POST"
         \/ c.topic = "revocation" /\ c.method = "POST"
         \/ c.topic = "credential" /\ c.method = "DELETE" ->
            IF r.status = 200
            THEN TranslatedAnswer(c, r) ELSE Returned(r.status, r.body)
      [] \/ c.topic = "issue-credential-v2"
         \/ c.topic = "proof-v2" /\ c.method = "POST" ->
            IF c.method = "POST" /\ c.operation = "store" /\ r.status = 200
            THEN Raised("KeyError") ELSE PromotedAnswer(c, r)
      [] \/ c.topic = "proof-v2" /\ c.method = "GET"
         \/ c.topic = "revocation" /\ c.method = "GET" ->
            Returned(r.status, r.body)

\* The admin API answered the command's request (or the transport failed).
AdminResponse(p) ==
    /\ pc[p] = "admin"
    /\ LoopFreeFor(p)
    /\ \E r \in AdminResponsesFor(cmd[p]) :
          /\ admin_resp' = [admin_resp EXCEPT ![p] = r]
          /\ IF r.fault # "none" THEN Finish(p, Raised(r.fault))
             ELSE Finish(p, PostProcess(cmd[p], r))
    /\ UNCHANGED <<storage, cmd, timeout, ex_id, reads, adminLog, delivered,
                   hookVars, confVars>>

\* prepare-json-ld: the admin API answered r, with the dids r.dids, to the
\* GET of the matching dids or to the POST that creates one.  A did is the
\* sequence of the parts that ":" separates.
WalletResponse(p, r) ==
    /\ pc[p] \in {"wallet_get", "wallet_create"}
    /\ LoopFreeFor(p)
    /\ pc[p] = "wallet_create" /\ r.status = 200 => Len(r.dids) > 0
    /\ admin_resp' = [admin_resp EXCEPT ![p] = r]
    /\ LET did_method == cmd[p].data["did_method"]
           did == IF r.status = 200 /\ Len(r.dids) > 0
                  THEN r.dids[1] ELSE <<>>
           prefixed ==
               IF Len(did) >= 2 /\ did[1] = "did" /\ did[2] = did_method
               THEN did ELSE <<"did", did_method>> \o did
       IN  IF r.fault # "none"
           THEN Finish(p, Raised(r.fault)) /\ adminLog' = adminLog
           ELSE IF did # <<>>
           THEN /\ Finish(p, Returned(r.status, [did |-> prefixed]))
                /\ adminLog' = adminLog
           ELSE IF pc[p] = "wallet_get" /\ did_method # "sov"
           THEN /\ pc' = [pc EXCEPT ![p] = "wallet_create"]
                /\ adminLog' = adminLog \cup
                      {Request(p, "POST", <<"/wallet/did/create">>)}
                /\ resp' = resp
           ELSE /\ Finish(p, Returned(500, [text |-> "Unable to create did"]))
                /\ adminLog' = adminLog
    /\ UNCHANGED <<storage, cmd, timeout, ex_id, reads, delivered, hookVars,
                   confVars>>

\* Variant: the lookup of the schema is not consulted.
schema_never_existing(schema_ids) == [found |-> FALSE, id |-> "none"]

\* if len(resp_json["schema_ids"]) > 0: schema_id = resp_json["schema_ids"][0]
existing_schema_id(schema_ids) ==
    IF Len(schema_ids) > 0 THEN [found |-> TRUE, id |-> schema_ids[1]]
    ELSE [found |-> FALSE, id |-> "none"]

\* Variant: the first listed id is taken, whatever its tag.
first_cred_def_id(credential_definition_ids, tag) ==
    IF Len(credential_definition_ids) > 0
    THEN [found |-> TRUE, id |-> credential_definition_ids[1]]
    ELSE [found |-> FALSE, id |-> "none"]

\* The first listed id whose fifth part, cred_def_id.split(":")[4], is the
\* tag.
existing_cred_def_id(credential_definition_ids, tag) ==
    LET hits == {i \in DOMAIN credential_definition_ids :
                    Split(credential_definition_ids[i])[5] = tag}
    IN  IF hits = {} THEN [found |-> FALSE, id |-> "none"]
        ELSE [found |-> TRUE,
              id |-> credential_definition_ids[
                  CHOOSE i \in hits : \A j \in hits : i <= j]]

\* The admin API answered the lookup GET of a schema or credential
\* definition creation: the id is returned, or the create POST is sent.
LookupResponse(p) ==
    /\ pc[p] = "lookup"
    /\ LoopFreeFor(p)
    /\ LET c == cmd[p]
           ids == IF c.topic = "schema" THEN SchemasCreated(c.data)
                  ELSE CredDefsCreated(c.data)
           old == IF c.topic = "schema" THEN existing_schema_id(ids)
                  ELSE existing_cred_def_id(ids, c.data.tag)
           field == IF c.topic = "schema" THEN "schema_id"
                    ELSE "credential_definition_id"
       IN  \E ok \in BOOLEAN :
              /\ admin_resp' = [admin_resp EXCEPT ![p] =
                     IF ok THEN [status |-> 200, fault |-> "none",
                                 body |-> [ids |-> ids]]
                     ELSE [status |-> 0, fault |-> "ClientError",
                           body |-> [none |-> TRUE]]]
              /\ IF ~ok
                 THEN Finish(p, Raised("ClientError")) /\ adminLog' = adminLog
                 ELSE IF old.found
                 THEN /\ Finish(p, Returned(200,
                            JObject(<<field>>, (field :> JString(old.id)))))
                      /\ adminLog' = adminLog
                 ELSE /\ pc' = [pc EXCEPT ![p] = "create"]
                      /\ adminLog' = adminLog \cup
                            {Request(p, "POST", AdminPath(c, ex_id[p]))}
                      /\ resp' = resp
    /\ UNCHANGED <<storage, cmd, timeout, ex_id, reads, delivered, hookVars,
                   confVars>>

\* The admin API answered the create POST: the agent has registered the
\* schema or credential definition, or has refused.
CreateResponse(p) ==
    /\ pc[p] = "create"
    /\ LoopFreeFor(p)
    /\ LET c == cmd[p]
           field == IF c.topic = "schema" THEN "schema_id"
                    ELSE "credential_definition_id"
           id == IF c.topic = "schema" THEN SchemaId(SchemaKey(c.data))
                 ELSE CredDefId(c.data.schema_id, c.data.tag)
       IN  \E r \in CreateAnswers(field, id) :
              LET m == move_field_to_top_level(r.body, field)
              IN  /\ admin_resp' = [admin_resp EXCEPT ![p] = r]
                  /\ agent' =
                        IF r.status # 200 THEN agent
                        ELSE IF c.topic = "schema"
                        THEN [agent EXCEPT !.schemas =
                                 @ \cup {SchemaKey(c.data)}]
                        ELSE [agent EXCEPT !.cred_defs =
                                 @ \cup {<<c.data.schema_id, c.data.tag>>}]
                  /\ IF r.fault # "none" THEN Finish(p, Raised(r.fault))
                     ELSE IF ~r.json THEN Finish(p, Raised("JSONDecodeError"))
                     ELSE IF m.fault # "none" THEN Finish(p, Raised(m.fault))
                     ELSE Finish(p, Returned(r.status, m.data))
    /\ UNCHANGED <<storage, cmd, timeout, ex_id, reads, adminLog, delivered,
                   hookVars, auto, call, acapy_version>>

\* get_agent_args: the flags follow the arguments the agent is started
\* with, before any command is served.
get_agent_args(result) ==
    /\ \A p \in Procs : pc[p] = "idle"
    /\ nWebhooks = 0
    /\ auto = InitialFlags
    /\ auto' = [f \in DOMAIN auto |-> FlagArgument[f] \in result]
    /\ auto' # auto
    /\ UNCHANGED <<storage, procVars, hookVars, agent, call, acapy_version>>

(***************************************************************************)
(* Inputs: the notifications the agent sends and the commands the harness  *)
(* sends.                                                                  *)
(***************************************************************************)
Webhook(topic, base) == [topic |-> topic, base |-> base]

CredentialMsg(k, x) ==
    [thread_id |-> k, credential_exchange_id |-> x, state |-> "offer_sent"]
PresentationMsg(k, st) ==
    [thread_id |-> k, presentation_exchange_id |-> "x1", state |-> st]

(***************************************************************************)
(* Spec: a worker running a command that needs the rendezvous, a worker    *)
(* fetching webhook results, and the webhook receiver.                     *)
(***************************************************************************)
\* What the agent and the harness send: notifications of the credential
\* and presentation exchanges, commands that need the rendezvous, fetches.
CoreHarness ==
    [webhooks |->
        {Webhook(<<"issue", "_", "credential">>, CredentialMsg("t1", x)) : x \in ExIds}
        \cup {Webhook(<<"issue", "_", "credential">>,
                      [thread_id |-> "t1", state |-> "offer_sent"]),
              Webhook(<<"issue", "_", "credential">>, [state |-> "offer_sent"]),
              Webhook(<<"present", "_", "proof">>, PresentationMsg("t2", "request_sent")),
              Webhook(<<"present", "_", "proof">>, PresentationMsg("t2", "abandoned"))},
     rendezvous |->
        {Command("GET", "issue-credential", "none", "t1"),
         Command("POST", "issue-credential", "send-offer", "t1")},
     fetches |->
        {Command("FETCH", "issue-credential", "none", "t1"),
         Command("FETCH", "proof", "none", "t2")}]

Next ==
    \/ \E w \in CoreHarness.webhooks : ReceiveWebhook(w.topic, w.base)
    \/ \E c \in CoreHarness.rendezvous : Start("p1", c)
    \/ \E c \in CoreHarness.fetches : Start("p2", c)
    \/ \E p \in Procs : SwapPoll(p)
    \/ \E p \in Procs : FetchPoll(p)
    \/ \E p \in Procs : SendPost(p)
    \/ \E p \in Procs : AdminResponse(p)

Spec == Init /\ [][Next]_vars

(***************************************************************************)
(* SpecFetch: two workers fetching webhook results while notifications     *)
(* arrive for the same and for other ids.                                  *)
(***************************************************************************)
FetchHarness ==
    [webhooks |->
        {Webhook(<<"issue", "_", "credential">>, CredentialMsg(k, "x1")) : k \in Keys}
        \cup {Webhook(<<"present", "_", "proof">>, PresentationMsg("t1", "request_sent")),
              Webhook(<<"present", "_", "proof">>, PresentationMsg("t1", "abandoned"))},
     fetches |->
        {Command("FETCH", "issue-credential", "none", k) : k \in Keys}
        \cup {Command("FETCH", "proof", "none", "t1")}]

FetchNext ==
    \/ \E w \in FetchHarness.webhooks :
          ReceiveUpTo(MaxFetchWebhooks, w.topic, w.base)
    \/ \E p \in Procs, c \in FetchHarness.fetches : Start(p, c)
    \/ \E p \in Procs : FetchPoll(p)

SpecFetch == Init /\ [][FetchNext]_vars

(***************************************************************************)
(* SpecWait: a worker in each kind of bounded wait (rendezvous, the wait   *)
(* for the record's state, fetch) beside another command and the receiver. *)
(***************************************************************************)
WaitHarness ==
    [webhooks |->
        {Webhook(<<"issue", "_", "credential">>, CredentialMsg(k, "x1")) : k \in Keys},
     waiting |->
        {Command("GET", "issue-credential", "none", "t1"),
         Command("POST", "issue-credential", "issue", "t1"),
         Command("FETCH", "issue-credential", "none", "t1")},
     others |-> {Command("FETCH", "issue-credential", "none", "t2")}]

WaitNext ==
    \/ \E w \in WaitHarness.webhooks : ReceiveWebhook(w.topic, w.base)
    \/ \E c \in WaitHarness.waiting : Start("p1", c)
    \/ \E c \in WaitHarness.others : Start("p2", c)
    \/ \E p \in Procs : SwapPoll(p)
    \/ \E p \in Procs : FetchPoll(p)
    \/ \E p \in Procs : ExpectedResume(p)
    \/ \E p \in Procs : ExpectedResponse(p)
    \/ \E p \in Procs : SendPost(p)
    \/ \E p \in Procs : AdminResponse(p)

SpecWait == Init /\ [][WaitNext]_vars

(***************************************************************************)
(* SpecDispatch: the command dispatcher on supported and unsupported       *)
(* topics and operations, under each setting of the auto flags, with the   *)
(* agent's ledger behind the creation commands.  The harness sends its     *)
(* commands one after the other.                                           *)
(***************************************************************************)
MaxDispatchWebhooks == 2

\* The flag arguments of the agent's start: the list as the code has it,
\* and the lists with one of the lines it keeps commented out.
AgentArgs ==
    {{"--auto-accept-requests"}}
    \cup {{"--auto-accept-requests", FlagArgument[f]} :
             f \in DOMAIN FlagArgument \ {"auto_accept_requests",
                                          "auto_respond_messages"}}
    \cup {{FlagArgument[f]} :
             f \in {"auto_respond_credential_request",
                    "auto_respond_presentation_request"}}

CreateCommands ==
    {DataCommand("POST", "schema", "none", "none",
                 [schema_name |-> n, schema_version |-> v]) :
        n \in {"degree", "licence"}, v \in {"1.0"}}
    \cup {DataCommand("POST", "credential-definition", "none", "none",
                      [schema_id |-> SchemaId(<<"degree", "1.0">>),
                       tag |-> tag]) :
             tag \in {"tag1", "tag2"}}

\* The commands of the harness: on a topic or an operation the
\* backchannel does not know; those a set auto flag answers; other known
\* ones; and the creations.
DispatchCommands ==
    {Command(m, "bogus", "none", r) :
        m \in {"GET", "POST", "DELETE", "FETCH"}, r \in {"none", "t1"}}
    \cup {Command("POST", "connection", "bogus", "c1"),
          Command("DELETE", "connection", "none", "c1"),
          Command("DELETE", "credential", "none", "none"),
          Command("FETCH", "did", "none", "t1"),
          Command("GET", "active-connection", "none", "none"),
          Command("POST", "issue-credential-v2", "bogus", "none"),
          Command("POST", "issue-credential-v2", "bogus", "t1"),
          Command("POST", "proof-v2", "bogus", "none"),
          Command("POST", "did-exchange", "bogus", "c1"),
          Command("POST", "revocation", "bogus", "none")}
    \cup
    {Command("POST", "connection", "accept-request", "c1"),
     Command("POST", "did-exchange", "send-response", "c1")}
    \cup {Command("POST", t, o, r) :
             t \in {"issue-credential", "issue-credential-v2"},
             o \in {"send-offer", "send-request", "issue"},
             r \in {"none", "t1"}}
    \cup {Command("POST", t, o, r) :
             t \in {"proof", "proof-v2"},
             o \in {"send-request", "send-presentation",
                    "verify-presentation"},
             r \in {"none", "t2"}}
    \cup
    {Command("GET", "status", "none", "none"),
     Command("GET", "version", "none", "none"),
     Command("GET", "issue-credential", "none", "t1"),
     Command("GET", "proof-v2", "none", "t2"),
     Command("FETCH", "issue-credential", "none", "t1"),
     Command("DELETE", "credential", "none", "c1"),
     Command("POST", "connection", "accept-invitation", "c1"),
     DataCommand("POST", "proof", "verify-presentation", "t2",
                 ("~service" :> "x2"))}
    \cup CreateCommands

\* The harness sends its next creation command once the first is answered.
StartNext(c) ==
    /\ pc["p1"] \in {"done", "fault"}
    /\ cmd["p1"] \in CreateCommands
    /\ Start("p2", c)

DispatchWebhooks ==
    {Webhook(<<"issue", "_", "credential">>, CredentialMsg("t1", "x1")),
     Webhook(<<"present", "_", "proof">>, PresentationMsg("t2", "request_sent"))}

DispatchNext ==
    \/ \E result \in AgentArgs : get_agent_args(result)
    \/ \E w \in DispatchWebhooks :
          ReceiveUpTo(MaxDispatchWebhooks, w.topic, w.base)
    \/ \E c \in DispatchCommands : Start("p1", c)
    \/ \E c \in CreateCommands : StartNext(c)
    \/ \E p \in Procs : SwapPoll(p)
    \/ \E p \in Procs : FetchPoll(p)
    \/ \E p \in Procs : ExpectedResume(p)
    \/ \E p \in Procs : ExpectedResponse(p)
    \/ \E p \in Procs : SendPost(p)
    \/ \E p \in Procs : AdminResponse(p)
    \/ \E p \in Procs : LookupResponse(p)
    \/ \E p \in Procs : CreateResponse(p)

SpecDispatch == Init /\ [][DispatchNext]_vars

(***************************************************************************)
(* SpecPure: the translator and the field promotion applied to responses   *)
(* of every shape; call holds the application and its result.              *)
(***************************************************************************)
\* agent_state_translation(topic, data)
Translate(topic, data) ==
    /\ call = NoCall
    /\ call' = [fn |-> "agent_state_translation", topic |-> topic,
                data |-> data, out |-> agent_state_translation(topic, data)]
    /\ UNCHANGED <<storage, procVars, hookVars, auto, agent, acapy_version>>

\* move_field_to_top_level(resp_text, field_to_move)
MoveField(resp_json, field_to_move) ==
    /\ call = NoCall
    /\ call' = [fn |-> "move_field_to_top_level", resp_json |-> resp_json,
                field |-> field_to_move,
                out |-> move_field_to_top_level(resp_json, field_to_move)]
    /\ UNCHANGED <<storage, procVars, hookVars, auto, agent, acapy_version>>

\* get_agent_operation_acapy_version_based(command) of an agent whose
\* version text (self.acapy_version) is version.
VersionBased(version, operation, data) ==
    /\ call = NoCall
    /\ call' = [fn |-> "get_agent_operation_acapy_version_based",
                acapy_version |-> version, operation |-> operation,
                data |-> data,
                comparibleVersion |-> get_acapy_version_as_float(version),
                out |-> get_agent_operation_acapy_version_based(
                            version, operation, data)]
    /\ UNCHANGED <<storage, procVars, hookVars, auto, agent, acapy_version>>

\* The version texts of agents before, at and after 0.5.4, released and
\* not, with one- and two-digit parts, as the file gives them (with the
\* line end) or the status call, and no version; and the data the harness sends with a revocation command.
VersionInputs ==
    [versions |->
        {<<>>, <<"0">>,
         <<"0", ".", "5", ".", "3">>,
         <<"0", ".", "5", ".", "4">>,
         <<"0", ".", "5", ".", "4", "\n">>,
         <<"0", ".", "5", ".", "4", "-", "R", "C">>,
         <<"0", ".", "5", ".", "5">>,
         <<"0", ".", "5", ".", "5", "-", "R", "C", "\n">>,
         <<"0", ".", "5", ".", "1", "0">>,
         <<"0", ".", "6", ".", "0">>,
         <<"0", ".", "7", ".", "4">>,
         <<"1", ".", "0", ".", "0">>,
         <<"m", "a", "i", "n">>},
     data |->
        {[cred_rev_id |-> r, rev_registry_id |-> g, publish_immediately |-> b]
            @@ n :
            r \in {"1", "2"}, g \in {"g1", "g2"}, b \in BOOLEAN,
            n \in {<<>>, [notify_connection_id |-> "c1"]}}
        \cup {[cred_ex_id |-> "x1"],
              [cred_ex_id |-> "x1", cred_rev_id |-> "1",
               rev_registry_id |-> "g1", publish_immediately |-> TRUE],
              [cred_rev_id |-> "1", rev_registry_id |-> "g1"],
              NoData}]

\* What a response holds beside its state.
OtherFields ==
    {[connection_id |-> "c1"],
     [request_id |-> "r1"],
     [invitation_key |-> "k1"],
     [alias |-> "request"],
     [their_role |-> "invitee"],
     [their_role |-> "inviter"],
     [their_role |-> "requester"],
     [their_role |-> "inviter", their_label |-> "my_invitee"],
     [connection_protocol |-> "didexchange/1.0"],
     [connection_protocol |-> "didexchange/1.0", their_role |-> "inviter"],
     [connection_protocol |-> "didexchange/1.0", their_role |-> "inviter",
      inviter_agent |-> "a1"]}

\* Responses: records with a state, records without, and, for the topic
\* connection, the list GET connection builds when no id is given.
TranslationInputs(topic) ==
    {[state |-> st] @@ o :
        \* the states of the tables, and two no table holds
        st \in DOMAIN connectionStateTranslationDict
               \cup DOMAIN issueCredentialStateTranslationDict
               \cup DOMAIN presentProofStateTranslationDict
               \cup DOMAIN didExchangeResponderStateTranslationDict
               \cup {"abandoned", "revoked"},
        o \in OtherFields}
    \cup OtherFields
    \cup IF topic = "connection"
         THEN {[json_list |-> <<[connection_id |-> "c1", state |-> st]>>] :
                  st \in {"request", "abandoned"}}
         ELSE {}

\* The values a top-level key of a response may hold.
TopValues ==
    {[kind |-> "number", n |-> 1], [kind |-> "null"],
     JString("x"), JString("state"),
     [kind |-> "list", items |-> <<>>],
     [kind |-> "list", items |-> <<JString("state")>>],
     JObject(<<"state">>, [state |-> JString("done")]),
     JObject(<<"schema_id">>, [schema_id |-> JString("did:2:degree:1.0")]),
     JObject(<<"other">>, [other |-> [kind |-> "number", n |-> 1]])}

\* Responses of one or two top-level keys, in either order.
PromotionInputs ==
    {JObject(<<>>, <<>>)}
    \cup {JObject(<<k>>, (k :> v)) : k \in {"sent", "meta", "state"}, v \in TopValues}
    \cup {JObject(kk, (kk[1] :> v1) @@ (kk[2] :> v2)) :
             kk \in {x \in {"sent", "meta", "state"} \X {"sent", "meta", "state"} : x[1] # x[2]},
             v1 \in TopValues, v2 \in TopValues}

PureNext ==
    \/ \E topic \in
             {"connection", "issue-credential", "proof", "out-of-band", "did-exchange",
              "revocation", "credential"} :
          \E data \in TranslationInputs(topic) : Translate(topic, data)
    \/ \E resp_json \in PromotionInputs, field \in {"state", "schema_id"} :
          MoveField(resp_json, field)
    \/ \E version \in VersionInputs.versions,
          operation \in {"revoke", "credential-record"},
          data \in VersionInputs.data :
          VersionBased(version, operation, data)

SpecPure == Init /\ [][PureNext]_vars

(***************************************************************************)
(* SpecStartup: start_process (the flags of get_agent_args, then the       *)
(* version of detect_process), and after it commands whose request depends *)
(* on the version or on a flag, a fetch and the webhook receiver.          *)
(***************************************************************************)
\* Variant: the version is taken from a status answer at any time.
detect_process_at_any_time(status) ==
    /\ LET ok == status.json /\ "version" \in DOMAIN status.body
       IN  /\ acapy_version' =
                 IF ok THEN status.body.version ELSE acapy_version
           /\ call' = [fn |-> "detect_process", status |-> status,
                       fault |-> IF ok THEN "none" ELSE "Exception"]
    /\ UNCHANGED <<storage, procVars, hookVars, auto, agent>>

\* detect_process, awaited by start_process after get_process_args and
\* before any command is served: the text GET /status answered (none when
\* the agent did not answer in time) gives the version, or the start fails.
detect_process(status) ==
    /\ \A p \in Procs : pc[p] = "idle"
    /\ nWebhooks = 0
    /\ auto # InitialFlags
    /\ call = NoCall
    /\ LET ok == status.json /\ "version" \in DOMAIN status.body
       IN  /\ acapy_version' =
                 IF ok THEN status.body.version ELSE acapy_version
           /\ call' = [fn |-> "detect_process", status |-> status,
                       fault |-> IF ok THEN "none" ELSE "Exception"]
    /\ UNCHANGED <<storage, procVars, hookVars, auto, agent>>

StartupHarness ==
    [statuses |->
        {[json |-> TRUE, body |-> [version |-> <<"0", ".", "5", ".", "4">>]],
         [json |-> TRUE, body |-> [version |-> <<"0", ".", "7", ".", "5">>]],
         [json |-> TRUE, body |-> [label |-> "agent"]],
         [json |-> FALSE, body |-> [text |-> "starting"]],
         [json |-> FALSE, body |-> [none |-> TRUE]]},
     webhooks |->
        {Webhook(<<"issue", "_", "credential">>,
                 [thread_id |-> "t1", credential_exchange_id |-> "x1",
                  revocation_id |-> "1", revoc_reg_id |-> "g1",
                  state |-> "credential_issued"])},
     commands |->
        {DataCommand("POST", "revocation", "revoke", "none",
                     [cred_rev_id |-> "1", rev_registry_id |-> "g1",
                      publish_immediately |-> TRUE]),
         DataCommand("POST", "revocation", "credential-record", "none",
                     [cred_ex_id |-> "x1"]),
         Command("GET", "revocation", "revoke", "none"),
         Command("POST", "issue-credential", "issue", "none"),
         Command("FETCH", "issue-credential", "none", "t1")}]

StartupNext ==
    \/ \E result \in AgentArgs : get_agent_args(result)
    \/ \E status \in StartupHarness.statuses : detect_process(status)
    \* a failed start ends the process: nothing is served after it
    \/ \E w \in StartupHarness.webhooks :
          /\ call.fn = "detect_process" => call.fault = "none"
          /\ ReceiveUpTo(MaxDispatchWebhooks, w.topic, w.base)
    \/ \E p \in Procs, c \in StartupHarness.commands :
          /\ call.fn = "detect_process" => call.fault = "none"
          /\ Start(p, c)
    \/ \E p \in Procs :
          /\ call.fn = "detect_process" => call.fault = "none"
          /\ FetchPoll(p)
    \/ \E p \in Procs :
          /\ call.fn = "detect_process" => call.fault = "none"
          /\ SendPost(p)
    \/ \E p \in Procs :
          /\ call.fn = "detect_process" => call.fault = "none"
          /\ AdminResponse(p)

SpecStartup == Init /\ [][StartupNext]_vars

(***************************************************************************)
(* SpecExchange: one credential exchange, thread t1: its notifications     *)
(* (version 1 and 2, with and without a revocation id), the commands of    *)
(* the exchange sent with the thread id, and the fetches of its results.   *)
(***************************************************************************)
MaxExchangeWebhooks == 2

ExchangeHarness ==
    [webhooks |->
        {Webhook(<<"issue", "_", "credential">>, CredentialMsg("t1", x)) : x \in ExIds}
        \cup {Webhook(<<"issue", "_", "credential">>,
                      [thread_id |-> "t1", credential_exchange_id |-> "x1",
                       revocation_id |-> "r1", revoc_reg_id |-> "g1",
                       state |-> "credential_issued"]),
              Webhook(<<"issue", "_", "credential", "_", "v2", "_", "0">>,
                      [thread_id |-> "t1", cred_ex_id |-> "x1",
                       revocation_id |-> "r2", state |-> "done"]),
              Webhook(<<"issue", "_", "credential", "_", "v2", "_", "0">>,
                      [thread_id |-> "t1", cred_ex_id |-> "x1",
                       state |-> "done"])},
     commands |->
        {Command("POST", "issue-credential", o, "t1") :
            o \in {"send-offer", "send-request", "store"}}
        \cup {Command("GET", "issue-credential", "none", "t1"),
              Command("FETCH", "issue-credential", "none", "t1"),
              Command("FETCH", "revocation-registry", "none", "t1")}]

ExchangeNext ==
    \/ \E w \in ExchangeHarness.webhooks :
          ReceiveUpTo(MaxExchangeWebhooks, w.topic, w.base)
    \/ \E c \in ExchangeHarness.commands : Start("p1", c)
    \* the harness sends its next command once the first is answered
    \/ \E c \in ExchangeHarness.commands :
          pc["p1"] \in {"done", "fault"} /\ Start("p2", c)
    \/ \E p \in Procs : SwapPoll(p)
    \/ \E p \in Procs : FetchPoll(p)
    \/ \E p \in Procs : SendPost(p)
    \/ \E p \in Procs : AdminResponse(p)

SpecExchange == Init /\ [][ExchangeNext]_vars

(***************************************************************************)
(* SpecWebhook: the webhook receiver alone, on every topic and on payloads *)
(* with and without the correlation fields.                                *)
(***************************************************************************)
AllTopics ==
    {<<"issue", "_", "credential">>, <<"present", "_", "proof">>,
     <<"issue", "-", "credential">>,
     <<"issue", "_", "credential", "_", "v2", "_", "0">>,
     <<"present", "_", "proof", "_", "v2", "_", "0">>,
     <<"problem", "_", "report">>,
     <<"revocation", "_", "notification">>,
     <<"revocation", "_", "registry">>,
     <<"revocation", "-", "registry">>,
     <<"oob", "_", "invitation">>,
     <<"connections">>,
     <<"webhook">>,
     <<"basicmessages">>,
     <<"proof", "_", "v2", "_", "POST">>}

AllPayloads ==
    {CredentialMsg(k, "x1") : k \in Keys}
    \cup {[thread_id |-> "t1", credential_exchange_id |-> "x1",
           revocation_id |-> "r1", state |-> "credential_issued"],
          [cred_def_id |-> "t1", state |-> "active"],
          [invitation_id |-> "t1", state |-> "initial"],
          [state |-> "offer_sent"]}
    \cup
    {[connection_id |-> k, connection_protocol |-> "connections/1.0",
      state |-> "request"] : k \in Keys}
    \cup {[connection_id |-> "c1", invitation_msg_id |-> "t1",
           connection_protocol |-> "didexchange/1.0", state |-> "request"],
          [connection_id |-> "c1", request_id |-> "t1",
           connection_protocol |-> "didexchange/1.0", state |-> "request"],
          [connection_id |-> "t1", connection_protocol |-> "didexchange/1.0",
           state |-> "request"],
          [connection_id |-> "t1", connection_protocol |-> "other/1.0",
           state |-> "request"],
          [connection_id |-> "t1", state |-> "request"]}

WebhookNext == \E t \in AllTopics, b \in AllPayloads : ReceiveWebhook(t, b)

SpecWebhook == Init /\ [][WebhookNext]_vars

(***************************************************************************)
(* Properties of the webhook receiver (checked under SpecWebhook).         *)
(***************************************************************************)
\* This step is the receipt of one webhook request.
Received == nWebhooks' = nWebhooks + 1

\* Every queue except those of the pairs in `except` is as it was.
OtherQueuesKept(except) ==
    /\ DOMAIN storage \subseteq DOMAIN storage'
    /\ \A kc \in DOMAIN storage' \ except :
          kc \in DOMAIN storage /\ storage'[kc] = storage[kc]

\* Topic -> the correlation field and the category of its notifications.
CorrelationRule ==
    (<<"issue", "_", "credential">> :>
        [field |-> "thread_id", category |-> "credential-msg"])
    @@ (<<"issue", "_", "credential", "_", "v2", "_", "0">> :>
        [field |-> "thread_id", category |-> "credential-msg"])
    @@ (<<"present", "_", "proof">> :>
        [field |-> "thread_id", category |-> "presentation-msg"])
    @@ (<<"present", "_", "proof", "_", "v2", "_", "0">> :>
        [field |-> "thread_id", category |-> "presentation-msg"])
    @@ (<<"problem", "_", "report">> :>
        [field |-> "thread_id", category |-> "problem-report-msg"])
    @@ (<<"revocation", "_", "notification">> :>
        [field |-> "thread_id", category |-> "revocation-notification-msg"])
    @@ (<<"revocation", "_", "registry">> :>
        [field |-> "cred_def_id", category |-> "revocation-registry-msg"])
    @@ (<<"oob", "_", "invitation">> :>
        [field |-> "invitation_id", category |-> "oob-inviation-msg"])

CredentialTopics ==
    {<<"issue", "_", "credential">>,
     <<"issue", "_", "credential", "_", "v2", "_", "0">>}

\* C5: a well-formed webhook on a topic of the correlation table appends
\* exactly one entry, the payload, to the tail of the queue for (value of
\* the correlation field, category); apart from the revocation mirror of a
\* credential notification that carries revocation_id, no other queue
\* changes.
C5_CorrelationKeyExtraction ==
    [][(Received /\ whResp'.topic \in DOMAIN CorrelationRule
                 /\ Has(whResp'.payload,
                        CorrelationRule[whResp'.topic].field))
       => LET m == whResp'.payload
              rule == CorrelationRule[whResp'.topic]
              key == m[rule.field]
              own == <<key, rule.category>>
              mirror == IF whResp'.topic \in CredentialTopics
                           /\ Has(m, "revocation_id")
                        THEN {<<key, "revocation-registry-msg">>}
                        ELSE {}
          IN  /\ own \in DOMAIN storage'
              /\ storage'[own] = Append(Queue(storage, key, rule.category), m)
              /\ OtherQueuesKept({own} \cup mirror)]_vars

\* C5 witness: a well-formed notification was appended behind an earlier one.
C5_Witness ==
    /\ whResp.topic = <<"problem", "_", "report">>
    /\ Has(whResp.payload, "thread_id")
    /\ LET q == Queue(storage, whResp.payload["thread_id"],
                      "problem-report-msg")
       IN  Len(q) = 2 /\ q[2] = whResp.payload /\ q[1] # q[2]

\* C6: the webhook endpoint answers every notification with status 200,
\* whatever the topic and payload, also when the handler faults.
C6_AlwaysAnswers200 == nWebhooks > 0 => whResp.status = 200

\* The payload lacks the correlation field its handler reads.
LacksCorrelationField(topic, m) ==
    \/ topic \in DOMAIN CorrelationRule
          /\ ~Has(m, CorrelationRule[topic].field)
    \/ topic = <<"connections">>
          /\ ~Has(m, "request_id")
          /\ ~(Has(m, "connection_protocol")
                 /\ m["connection_protocol"] = "didexchange/1.0"
                 /\ Has(m, "invitation_msg_id"))
          /\ ~(Has(m, "connection_protocol")
                 /\ m["connection_protocol"] = "connections/1.0"
                 /\ Has(m, "connection_id"))

\* C7: a webhook whose payload lacks the correlation field of its category
\* is dropped: no fault reaches the HTTP layer and the store is unchanged.
C7_MalformedDropped ==
    [][(Received /\ LacksCorrelationField(whResp'.topic, whResp'.payload))
       => whResp'.fault = "none" /\ storage' = storage]_vars

\* Topic -> the handler its notifications are dispatched to.
Routing ==
    (<<"issue", "_", "credential">> :> <<"handle", "_", "issue", "_", "credential">>)
    @@ (<<"issue", "-", "credential">> :>
          <<"handle", "_", "issue", "_", "credential">>)
    @@ (<<"issue", "_", "credential", "_", "v2", "_", "0">> :>
          <<"handle", "_", "issue", "_", "credential", "_", "v2", "_", "0">>)
    @@ (<<"present", "_", "proof">> :> <<"handle", "_", "present", "_", "proof">>)
    @@ (<<"present", "_", "proof", "_", "v2", "_", "0">> :>
          <<"handle", "_", "present", "_", "proof", "_", "v2", "_", "0">>)
    @@ (<<"problem", "_", "report">> :> <<"handle", "_", "problem", "_", "report">>)
    @@ (<<"revocation", "_", "notification">> :>
          <<"handle", "_", "revocation", "_", "notification">>)
    @@ (<<"revocation", "_", "registry">> :>
          <<"handle", "_", "revocation", "_", "registry">>)
    @@ (<<"revocation", "-", "registry">> :>
          <<"handle", "_", "revocation", "_", "registry">>)
    @@ (<<"oob", "_", "invitation">> :> <<"handle", "_", "oob", "_", "invitation">>)
    @@ (<<"connections">> :> <<"handle", "_", "connections">>)
    @@ (<<"proof", "_", "v2", "_", "POST">> :>
          <<"handle", "_", "proof", "_", "v2", "_", "POST">>)

\* C8: a notification on topic "webhook" is discarded without invoking a
\* handler; one on any other topic goes to the handler named handle_<topic
\* with - replaced by _>; a topic with no such handler is dropped.  In both
\* discard cases the store is unchanged.
C8_WebhookRouting ==
    [][Received
       => LET r == whResp'
          IN  /\ r.topic = <<"webhook">>
                    => r.handler = <<"none">> /\ storage' = storage
              /\ r.topic \in DOMAIN Routing => r.handler = Routing[r.topic]
              /\ (r.topic # <<"webhook">> /\ r.topic \notin DOMAIN Routing)
                    => r.handler = <<"none">> /\ storage' = storage]_vars

\* C8 witness: a topic written with a dash reached its handler, which pushed.
C8_Witness ==
    /\ whResp.topic = <<"revocation", "-", "registry">>
    /\ whResp.handler = <<"handle", "_", "revocation", "_", "registry">>
    /\ whResp.fault = "none"
    /\ Len(Queue(storage, "t1", "revocation-registry-msg")) > 0

(***************************************************************************)
(* Properties of the rendezvous (checked under Spec).                      *)
(***************************************************************************)
UsesRendezvous(c) == c.method \in {"GET", "POST"}

\* Some notification was pushed under the pair the command's rendezvous reads.
EverPushedFor(c) ==
    \E e \in pushLog :
        e.id = c.record_id /\ e.type = RendezvousArgs(c).data_type

\* C1: when a poll of the rendezvous, the last one included, finds a
\* notification carrying the id field under (thread_id, category), the
\* rendezvous returns that value and does not fault with a timeout.
C1_RendezvousSuccess ==
    \A p \in Procs :
        (UsesRendezvous(cmd[p]) /\ ex_id[p] # "none")
        => ~(pc[p] = "fault" /\ resp[p].fault = "TimeoutError")

\* What worker p may still do.
WorkerStep(p) ==
    \/ SwapPoll(p) \/ FetchPoll(p) \/ ExpectedResume(p)
    \/ ExpectedResponse(p) \/ SendPost(p) \/ AdminResponse(p)

\* C2: the rendezvous reads the store at most wait_time/sleep_time + 1
\* times; when no notification was ever pushed under (thread_id, category)
\* it ends with a TimeoutError, and the command that called it ends in that
\* fault, takes no further step and has sent no admin request.
C2_RendezvousTimeout ==
    \A p \in Procs :
        UsesRendezvous(cmd[p])
        => /\ reads[p] <= (wait_time \div sleep_time) + 1
           /\ (~EverPushedFor(cmd[p]) /\ pc[p] # "swap")
                => /\ pc[p] = "fault"
                   /\ resp[p].fault = "TimeoutError"
                   /\ ~ENABLED WorkerStep(p)
                   /\ \A r \in adminLog : r.proc # p

\* C2 witness: a rendezvous timed out after all its reads; nothing was pushed.
C2_Witness ==
    \E p \in Procs :
        /\ UsesRendezvous(cmd[p]) /\ ~EverPushedFor(cmd[p])
        /\ pc[p] = "fault" /\ resp[p].fault = "TimeoutError"
        /\ reads[p] = (wait_time \div sleep_time) + 1

(***************************************************************************)
(* Failure isolation (checked under Spec).                                 *)
(***************************************************************************)
Local(p) == <<cmd[p], pc[p], timeout[p], ex_id[p], resp[p], reads[p]>>

\* In this step the command of worker p ends in a fault.
Fails(p) == pc[p] # "fault" /\ pc'[p] = "fault"

PairsOf(k) == {kc \in DOMAIN storage' : kc[1] = k}

\* C9: when a command or fetch for one id ends in a fault (rendezvous
\* timeout, unmapped state, transport fault), or a malformed webhook is
\* received, the queues of every other id and the other workers are as they
\* were, and the failed worker does not keep the event loop.
C9_FailureIsolation ==
    [][/\ \A p \in Procs :
             (Fails(p) /\ cmd'[p].record_id \in Keys)
             => /\ OtherQueuesKept(PairsOf(cmd'[p].record_id))
                /\ \A q \in Procs \ {p} : Local(q)' = Local(q)
                /\ UNCHANGED <<nWebhooks, whResp>>
                /\ \A q \in Procs \ {p} : LoopFreeFor(q)' = LoopFreeFor(q)
       /\ (Received /\ LacksCorrelationField(whResp'.topic, whResp'.payload))
             => /\ storage' = storage
                /\ \A q \in Procs : Local(q)' = Local(q)]_vars

\* C9 witness: a fetch for t2 ended in the unmapped-state fault and a
\* command for t1 completed with the notification of its own exchange.
C9_Witness ==
    /\ pc["p2"] = "fault" /\ resp["p2"].fault = "KeyError"
    /\ cmd["p2"].record_id = "t2"
    /\ pc["p1"] = "done" /\ resp["p1"].status = 200
    /\ cmd["p1"].record_id = "t1" /\ ex_id["p1"] \in ExIds

(***************************************************************************)
(* Properties of the fetch (checked under SpecFetch).                      *)
(***************************************************************************)
SamePair(d, e) == d.id = e.id /\ d.type = e.type

\* C3: for each (id, category) the fetches return the notifications in the
\* order the webhooks arrived, and what is still queued arrived later than
\* everything returned, whatever happens on other ids.
C3_FifoDelivery ==
    /\ \A i, j \in DOMAIN delivered :
          (i < j /\ SamePair(delivered[i], delivered[j]))
          => delivered[i].msg["updated_at"] < delivered[j].msg["updated_at"]
    /\ \A i \in DOMAIN delivered :
          LET q == Queue(storage, delivered[i].id, delivered[i].type)
          IN  \A n \in DOMAIN q :
                  delivered[i].msg["updated_at"] < q[n]["updated_at"]

\* C3 witness: two notifications of one id were fetched, a notification of
\* another id having arrived between them.
C3_Witness ==
    \E i, j \in DOMAIN delivered :
        /\ i < j /\ SamePair(delivered[i], delivered[j])
        /\ delivered[i].fault = "none" /\ delivered[j].fault = "none"
        /\ \E e \in pushLog :
              /\ e.id # delivered[i].id
              /\ delivered[i].msg["updated_at"] < e.msg["updated_at"]
              /\ e.msg["updated_at"] < delivered[j].msg["updated_at"]

IsFetch(c) == c.method = "FETCH"

\* C4: every pushed notification is handed to at most one fetch; each is
\* either still queued or was handed to a fetch, which returned it or
\* faulted; a fetch that found nothing in all its pops returns 200 with {}.
C4_NoLossNoDuplication ==
    /\ \A i, j \in DOMAIN delivered :
          (i # j /\ delivered[i].type = delivered[j].type)
          => delivered[i].msg # delivered[j].msg
    /\ pushLog =
          {Entry(delivered[i].id, delivered[i].type, delivered[i].msg) :
              i \in DOMAIN delivered}
          \cup UNION {{Entry(kc[1], kc[2], storage[kc][n]) :
                          n \in DOMAIN storage[kc]} : kc \in DOMAIN storage}
    /\ \A i \in DOMAIN delivered :
          LET d == delivered[i]
          IN  /\ IsFetch(cmd[d.proc]) /\ cmd[d.proc].record_id = d.id
              /\ resp[d.proc].fault = d.fault
              /\ (d.fault = "none" /\ cmd[d.proc].topic \notin FetchTranslated)
                    => resp[d.proc] = Returned(200, d.msg)
    /\ \A p \in Procs :
          (IsFetch(cmd[p]) /\ pc[p] = "done"
             /\ \A i \in DOMAIN delivered : delivered[i].proc # p)
          => /\ resp[p] = Returned(200, [empty |-> TRUE])
             /\ reads[p] = MAX_TIMEOUT + 1

\* C4 witness: after a single push under an id, one fetch returned the
\* payload and the other fetch of that id reported absence.
C4_Witness ==
    \E p, q \in Procs :
        /\ p # q /\ cmd[p] = cmd[q] /\ IsFetch(cmd[p])
        /\ pc[p] = "done" /\ pc[q] = "done"
        /\ Cardinality({e \in pushLog :
              e.id = cmd[p].record_id
              /\ e.type = FetchCategory[cmd[p].topic]}) = 1
        /\ Has(resp[p].body, "thread_id")
        /\ resp[q].body = [empty |-> TRUE]

(***************************************************************************)
(* Non-blocking waits (checked under SpecWait).                            *)
(***************************************************************************)
PollingPcs == {"swap", "exp_sleep", "exp_get", "fetch"}

\* Worker p does something in this step.
Steps(p) == Local(p)' # Local(p)

\* While worker p waits, the receiver accepts any notification and the
\* other workers can start or continue their commands.
OthersCanRun(p) ==
    /\ nWebhooks < MaxWebhooks
          => \A w \in WaitHarness.webhooks :
                 ENABLED ReceiveWebhook(w.topic, w.base)
    /\ \A q \in Procs \ {p} :
          /\ pc[q] = "idle"
                => \A c \in WaitHarness.waiting \cup WaitHarness.others :
                       ENABLED Start(q, c)
          /\ pc[q] \in WaitPcs => ENABLED WorkerStep(q)

\* The poll worker p makes in this step sees the notification at the head
\* of the queue of its own id.
PollObservesHead(p) ==
    LET c == cmd[p]
        a == RendezvousArgs(c)
        q == Queue(storage, c.record_id, a.data_type)
    IN  /\ (pc[p] = "swap" /\ timeout[p] <= wait_time /\ Steps(p)
             /\ Len(q) > 0 /\ Has(q[1], a.id_txt))
              => ex_id'[p] = q[1][a.id_txt]
        /\ (pc[p] = "fetch" /\ Steps(p)
             /\ Len(Queue(storage, c.record_id, FetchCategory[c.topic])) > 0)
              => /\ pc'[p] = "done"
                 /\ resp'[p].body =
                       Queue(storage, c.record_id, FetchCategory[c.topic])[1]

\* C10: while a rendezvous, a pre-condition wait or a fetch is suspended
\* between polls, the receiver can accept notifications for any id and the
\* other commands can make progress; a notification pushed for the waiter's
\* own id during the wait is seen by its next poll.
C10_NonBlockingWaits ==
    /\ [](\A p \in Procs : pc[p] \in PollingPcs => OthersCanRun(p))
    /\ [][\A p \in Procs : PollObservesHead(p)]_vars

\* C10 witness: the fetch of p1 missed at its first pop, the notification of
\* its id was accepted while it slept and returned by a later pop; meanwhile
\* the fetch of p2 for the other id did the same.
C10_Witness ==
    /\ IsFetch(cmd["p1"]) /\ pc["p1"] = "done" /\ reads["p1"] >= 2
    /\ Has(resp["p1"].body, "thread_id")
    /\ IsFetch(cmd["p2"]) /\ pc["p2"] = "done" /\ reads["p2"] >= 2
    /\ Has(resp["p2"].body, "thread_id")


(***************************************************************************)
(* C11.  Unsupported surface.                                              *)
(***************************************************************************)
\* The topics each kind of command knows.
KnownTopics ==
    [GET |-> {"status", "version", "connection", "did", "active-connection",
              "schema", "credential-definition", "issue-credential",
              "issue-credential-v2", "credential", "proof", "proof-v2",
              "revocation", "did-exchange"},
     POST |-> {"connection", "schema", "credential-definition",
               "issue-credential", "issue-credential-v2", "revocation",
               "proof", "proof-v2", "out-of-band", "did-exchange"},
     DELETE |-> {"credential"},
     FETCH |-> DOMAIN FetchCategory]

\* The operations a POST topic names one by one.
KnownOperations(topic) ==
    CASE topic = "connection" ->
            {"create-invitation", "receive-invitation", "accept-invitation",
             "accept-request", "remove", "start-introduction", "send-ping"}
      [] topic = "issue-credential-v2" ->
            DOMAIN issueCredentialv2OperationTranslationDict
            \cup {"prepare-json-ld"}
      [] topic = "proof-v2" -> DOMAIN proofv2OperationTranslationDict
      [] topic = "did-exchange" ->
            {"send-request", "receive-invitation", "send-response",
             "create-request-resolvable-did", "receive-request-resolvable-did"}
      [] topic = "revocation" -> {"revoke", "credential-record"}

\* The topic/operation combination of command c is not supported.
Unsupported(c) ==
    /\ c.method \in DOMAIN KnownTopics
    /\ \/ c.topic \notin KnownTopics[c.method]
       \/ /\ c.method = "POST"
          /\ c.topic \in {"connection", "issue-credential-v2", "proof-v2",
                          "did-exchange", "revocation"}
          /\ c.operation \notin KnownOperations(c.topic)

RequestsOf(p) == {r \in adminLog : r.proc = p}

\* C11: a command whose topic/operation combination is not supported ends
\* with the return value (501, "501: Not Implemented\n\n"), never with a
\* fault, and sends no request to the admin API.
C11_UnsupportedSurface ==
    \A p \in Procs :
        Unsupported(cmd[p]) =>
            /\ pc[p] = "done"
            /\ resp[p] = NotImplemented
            /\ RequestsOf(p) = {}


(***************************************************************************)
(* C12.  Auto short-circuit.                                               *)
(***************************************************************************)
\* The step command c requests is one the agent takes by itself under the
\* flags it was started with.
AutoFlagSet(c) ==
    /\ c.method = "POST"
    /\ \/ /\ auto.auto_accept_requests
          /\ <<c.topic, c.operation>> \in
                {<<"connection", "accept-request">>,
                 <<"did-exchange", "send-response">>}
       \/ /\ c.topic \in {"issue-credential", "issue-credential-v2"}
          /\ \/ /\ auto.auto_respond_credential_proposal
                /\ c.operation = "send-offer" /\ c.record_id # "none"
             \/ auto.auto_respond_credential_offer /\ c.operation = "send-request"
             \/ auto.auto_respond_credential_request /\ c.operation = "issue"
       \/ /\ c.topic \in {"proof", "proof-v2"}
          /\ \/ /\ auto.auto_respond_presentation_proposal
                /\ c.operation = "send-request" /\ c.record_id # "none"
             \/ /\ auto.auto_respond_presentation_request
                /\ c.operation = "send-presentation"

ClaimedState(c) ==
    IF c.method # "POST" THEN "none"
    ELSE IF /\ c.topic = "connection" /\ c.operation = "accept-request"
            /\ ~auto.auto_accept_requests
    THEN "request"
    ELSE IF /\ c.topic = "issue-credential" /\ c.operation = "issue"
            /\ ~auto.auto_respond_credential_request
    THEN "request_received"
    ELSE IF /\ c.topic = "proof" /\ c.operation = "verify-presentation"
            /\ ~auto.auto_respond_presentation_request
    THEN "presentation_received"
    ELSE "none"

\* The same, for the commands that name their record.
ClaimedStateOfRecord(c) ==
    IF c.topic \in {"issue-credential", "proof"} /\ c.record_id = "none"
    THEN "none" ELSE ClaimedState(c)

PostsOf(p) == {r \in RequestsOf(p) : r.method = "POST"}
GetsOf(p) == {r \in RequestsOf(p) : r.method = "GET"}

\* The step sends the POST of p only when the last answer to p was a 200
\* with the state st, given to a GET of p.
PostAfterState(p, st) ==
    PostsOf(p)' # PostsOf(p) =>
        /\ GetsOf(p) # {}
        /\ admin_resp[p].fault = "none" /\ admin_resp[p].status = 200
        /\ admin_resp[p].body["state"] = st

\* The wait of p is bounded: after int(wait_time / sleep_time) polls without
\* the state the command faults, and a command that faulted so has sent no
\* POST.
BoundedWait(p) ==
    /\ pc[p] \in {"exp_sleep", "exp_get"} =>
          timeout[p] <= expected_polls /\ PostsOf(p) = {}
    /\ pc[p] = "exp_sleep" /\ timeout[p] = expected_polls =>
          ~ENABLED SendPost(p)
    /\ resp[p] = Raised("Exception") =>
          pc[p] = "fault" /\ PostsOf(p) = {} /\ ~ENABLED SendPost(p)

ExhaustedFaults(p) ==
    pc[p] = "exp_sleep" /\ timeout[p] = expected_polls /\ pc'[p] # pc[p] =>
        pc'[p] = "fault" /\ resp'[p] = Raised("Exception")

\* C13 as stated: with the flag off, the POST of connection accept-request,
\* issue-credential issue and proof verify-presentation is sent only after a
\* GET of the record was answered 200 with the required state, and a
\* command that has not seen the state within the polls faults without a
\* POST.
C13_PreconditionOrdering_AnyCommand ==
    /\ [](\A p \in Procs : ClaimedState(cmd[p]) # "none" => BoundedWait(p))
    /\ [][\A p \in Procs :
             ClaimedState(cmd'[p]) # "none" =>
                 /\ PostAfterState(p, ClaimedState(cmd'[p]))
                 /\ ExhaustedFaults(p)]_vars

\* C13, amended: the same for the commands that carry a record id (for
\* connection accept-request, whatever the id): the POST follows a GET of
\* the record answered 200 with the required state, and after
\* int(wait_time / sleep_time) polls without it the command faults and
\* sends no POST.
C13_PreconditionOrdering ==
    /\ [](\A p \in Procs :
             ClaimedStateOfRecord(cmd[p]) # "none" => BoundedWait(p))
    /\ [][\A p \in Procs :
             ClaimedStateOfRecord(cmd'[p]) # "none" =>
                 /\ PostAfterState(p, ClaimedStateOfRecord(cmd'[p]))
                 /\ ExhaustedFaults(p)]_vars

\* The POST of issue is out after the record was seen in request_received.
C13_Witness ==
    /\ cmd["p1"] = Command("POST", "issue-credential", "issue", "t1")
    /\ pc["p1"] = "admin"
    /\ PostsOf("p1") # {}
    /\ admin_resp["p1"].status = 200
    /\ admin_resp["p1"].body = [state |-> "request_received"]


(***************************************************************************)
(* C14 - C16.  The vocabulary translator.                                  *)
(***************************************************************************)
IsTranslation == call.fn = "agent_state_translation"

\* The response is a JSON object with a state of its own.
HasState(data) == "state" \in DOMAIN data

\* The value of their_role names one of the two roles, or is absent.
RoleKnown(data) ==
    "their_role" \in DOMAIN data =>
        data["their_role"] \in {"invitee", "inviter"}

\* The did-exchange table for the value of their_role.
TableOfRole(data) ==
    IF "their_role" \in DOMAIN data /\ data["their_role"] = "inviter"
    THEN didExchangeRequesterStateTranslationDict
    ELSE didExchangeResponderStateTranslationDict

\* The translation is the did-exchange one.
DidExchangeLike(topic, data) ==
    \/ topic \in {"out-of-band", "did-exchange"}
    \/ /\ topic = "connection"
       /\ "connection_protocol" \in DOMAIN data
       /\ data["connection_protocol"] = "didexchange/1.0"

\* The table of the topic; the empty table for a topic that has none.
TableOf(topic, data) ==
    IF DidExchangeLike(topic, data) THEN TableOfRole(data)
    ELSE IF topic = "connection" THEN connectionStateTranslationDict
    ELSE IF topic = "issue-credential" THEN issueCredentialStateTranslationDict
    ELSE IF topic = "proof" THEN presentProofStateTranslationDict
    ELSE <<>>

TranslatedTopics ==
    {"connection", "issue-credential", "proof", "out-of-band", "did-exchange"}

\* C14: for a translated topic and a native state of its table, the result
\* is the payload with the state field set to the mapped value and every
\* other key and value as it was.
C14_TranslationExactness ==
    /\ IsTranslation
    /\ call.topic \in TranslatedTopics
    /\ HasState(call.data) /\ RoleKnown(call.data)
    /\ call.data["state"] \in DOMAIN TableOf(call.topic, call.data)
    => call.out =
          Translated([call.data EXCEPT
                         !["state"] = TableOf(call.topic, call.data)[@]])

\* The states a response carries: its own, or those of the records of a
\* list.
StatesOf(data) ==
    IF HasState(data) THEN {data["state"]}
    ELSE IF "json_list" \in DOMAIN data
    THEN {data["json_list"][i]["state"] : i \in DOMAIN data["json_list"]}
    ELSE {}

\* C15: for any topic the dispatcher passes to the translator, a response
\* with a state that has no entry in the table makes the call fault; the
\* native state is not handed on.
C15_UnmappedStateFaults ==
    /\ IsTranslation
    /\ RoleKnown(call.data)
    /\ \E st \in StatesOf(call.data) :
          st \notin DOMAIN TableOf(call.topic, call.data)
    => call.out.fault # "none"

\* C16: in a did-exchange-like translation of a payload with a state, the
\* selection of the table never faults, and with their_role invitee,
\* inviter or absent the table used is the responder's, the requester's and
\* the responder's, whatever else the payload holds.
C16_RoleTableSelection ==
    /\ IsTranslation
    /\ DidExchangeLike(call.topic, call.data)
    /\ HasState(call.data)
    => /\ call.out.fault # "UnboundLocalError"
       /\ RoleKnown(call.data) =>
             call.out =
                IF call.data["state"] \in DOMAIN TableOfRole(call.data)
                THEN Translated([call.data EXCEPT
                                    !["state"] = TableOfRole(call.data)[@]])
                ELSE TranslationFault("KeyError", call.data)

(***************************************************************************)
(* C19, C20.  Field promotion.                                             *)
(***************************************************************************)
IsPromotion == call.fn = "move_field_to_top_level"

\* The positions of the top-level keys under which the field is nested.
NestedUnder(resp_json, field) ==
    {i \in DOMAIN resp_json.keys :
        LET v == resp_json.val[resp_json.keys[i]]
        IN  v.kind = "object" /\ HasKey(v, field)}

FirstNesting(resp_json, field) ==
    CHOOSE i \in NestedUnder(resp_json, field) :
        \A j \in NestedUnder(resp_json, field) : i <= j

\* C19: a response with the field nested one level down comes back with
\* the field at top level, holding the nested value, and with all it held
\* before; a response with the field at top level comes back as the same
\* text.
C19_FieldPromotion ==
    IsPromotion =>
        LET r == call.resp_json
            f == call.field
        IN  /\ HasKey(r, f) => call.out = SameText(r)
            /\ ~HasKey(r, f) /\ NestedUnder(r, f) # {} =>
                  /\ call.out.fault = "none"
                  /\ HasKey(call.out.data, f)
                  /\ call.out.data.val[f] =
                        r.val[r.keys[FirstNesting(r, f)]].val[f]
                  /\ \A i \in DOMAIN r.keys :
                        /\ HasKey(call.out.data, r.keys[i])
                        /\ call.out.data.val[r.keys[i]] = r.val[r.keys[i]]

\* C20: a response that has the field neither at top level nor under a
\* top-level key comes back as the same text, without a fault, whatever
\* its top-level values are.
C20_PromotionNoOp ==
    /\ IsPromotion
    /\ ~HasKey(call.resp_json, call.field)
    /\ NestedUnder(call.resp_json, call.field) = {}
    => call.out = SameText(call.resp_json)


(***************************************************************************)
(* C17, C18.  Idempotent creation.                                         *)
(***************************************************************************)
IsCreate(c, topic) == c.method = "POST" /\ c.topic = topic

\* The value the response of p holds for the field at its top level.
TopLevel(p, field) ==
    IF "keys" \in DOMAIN resp[p].body /\ HasKey(resp[p].body, field)
    THEN resp[p].body.val[field]
    ELSE [kind |-> "null"]

\* C17: of two schema creations with the same name and version run one
\* after the other, the second sends the lookup GET only, never a create
\* POST, and both return the same schema_id at the top level.
C17_IdempotentSchemaCreation ==
    /\ IsCreate(cmd["p1"], "schema") /\ IsCreate(cmd["p2"], "schema")
    /\ cmd["p1"].data = cmd["p2"].data
    /\ pc["p1"] = "done"
    => /\ PostsOf("p2") = {} /\ pc["p2"] # "create"
       /\ GetsOf("p2") = {Request("p2", "GET", <<"/schemas/created">>)}
       /\ pc["p2"] = "done" =>
             /\ resp["p1"].status = 200 /\ resp["p2"].status = 200
             /\ TopLevel("p1", "schema_id").kind = "string"
             /\ TopLevel("p2", "schema_id") = TopLevel("p1", "schema_id")

\* The first creation sent its POST and the second answered from the
\* lookup, after an agent that answered the POST with the id under "sent".
C17_Witness ==
    /\ IsCreate(cmd["p1"], "schema") /\ IsCreate(cmd["p2"], "schema")
    /\ cmd["p1"].data = cmd["p2"].data
    /\ pc["p1"] = "done" /\ pc["p2"] = "done"
    /\ PostsOf("p1") # {} /\ PostsOf("p2") = {}
    /\ resp["p1"].status = 200
    /\ resp["p1"].body.keys = <<"sent", "schema_id">>
    /\ TopLevel("p2", "schema_id") = TopLevel("p1", "schema_id")

\* The agent lists a credential definition of the requested schema and tag.
ListsTag(c) == <<c.data.schema_id, c.data.tag>> \in agent.cred_defs

\* The lookup of p is being answered with a listing.
LookupAnswered(p) ==
    /\ pc[p] = "lookup" /\ pc'[p] # "lookup"
    /\ admin_resp'[p].status = 200

\* C18: a credential definition creation returns the listed id without a
\* create POST exactly when the listing of the schema holds an id with the
\* requested tag; otherwise it sends one create POST; the response of the
\* command has credential_definition_id at its top level.
C18_IdempotentCredDefCreation ==
    /\ [](\A p \in Procs :
             IsCreate(cmd[p], "credential-definition") =>
                /\ Cardinality(PostsOf(p)) <= 1
                /\ pc[p] = "create" => Cardinality(PostsOf(p)) = 1
                /\ pc[p] = "done" =>
                      /\ resp[p].status = 200
                      /\ TopLevel(p, "credential_definition_id").kind = "string")
    /\ [][\A p \in Procs :
             IsCreate(cmd[p], "credential-definition") /\ LookupAnswered(p) =>
                IF ListsTag(cmd[p])
                THEN /\ pc'[p] = "done" /\ PostsOf(p)' = {}
                     /\ resp'[p].body.val["credential_definition_id"] =
                           JString(CredDefId(cmd[p].data.schema_id,
                                             cmd[p].data.tag))
                ELSE /\ pc'[p] = "create"
                     /\ Cardinality(PostsOf(p)') = 1]_vars

\* The agent listed the definition of another tag, and the creation sent
\* its POST and returned the new id.
C18_Witness ==
    /\ IsCreate(cmd["p2"], "credential-definition")
    /\ pc["p2"] = "done"
    /\ Cardinality(PostsOf("p2")) = 1
    /\ Cardinality(agent.cred_defs) = 2
    /\ TopLevel("p2", "credential_definition_id") =
          JString(CredDefId(cmd["p2"].data.schema_id, cmd["p2"].data.tag))

(***************************************************************************)
(* The rendezvous on a stored notification without the id field (checked   *)
(* under Spec).                                                            *)
(***************************************************************************)
\* The queue the rendezvous of command c reads.
RendezvousQueue(c) == Queue(storage, c.record_id, RendezvousArgs(c).data_type)

\* The only notification stored for command c lacks the field it looks for.
OnlyOneWithoutField(c) ==
    /\ Len(RendezvousQueue(c)) = 1
    /\ ~Has(RendezvousQueue(c)[1], RendezvousArgs(c).id_txt)

\* C21: when the only notification stored under (thread_id, category) lacks
\* the field the rendezvous looks for, a rendezvous that has ended has ended
\* in a TimeoutError, after all the reads of the bounded wait.
C21_MissingFieldTimesOut ==
    \A p \in Procs :
        (UsesRendezvous(cmd[p]) /\ OnlyOneWithoutField(cmd[p])
         /\ pc[p] = "fault")
        => /\ resp[p].fault = "TimeoutError"
           /\ reads[p] = (wait_time \div sleep_time) + 1

(***************************************************************************)
(* The fetch that finds nothing (checked under SpecFetch).                 *)
(***************************************************************************)
\* No pop of the fetch of worker p found a notification.
NothingArrived(p) ==
    IsFetch(cmd[p]) /\ \A i \in DOMAIN delivered : delivered[i].proc # p

\* C22: a fetch that ended without any notification having arrived for its
\* id ended in a TimeoutError, not in a success status.
C22_FetchAbsenceFaults ==
    \A p \in Procs :
        (NothingArrived(p) /\ pc[p] \in {"done", "fault"})
        => /\ pc[p] = "fault"
           /\ resp[p].fault = "TimeoutError"
           /\ resp[p].status # 200

(***************************************************************************)
(* The revocation mirror (checked under SpecExchange).                     *)
(***************************************************************************)
CredentialHandlers ==
    {<<"handle", "_", "issue", "_", "credential">>,
     <<"handle", "_", "issue", "_", "credential", "_", "v2", "_", "0">>}

\* The queues of the revocation registry category.
RegistryQueues(s) ==
    [kc \in {x \in DOMAIN s : x[2] = "revocation-registry-msg"} |-> s[kc]]

\* This step stores a credential notification of thread T under (T,
\* credential-msg) and, when it carries revocation_id, under (T,
\* revocation-registry-msg) as well; without it no queue of that category
\* changes.
MirrorStep ==
    (Received /\ whResp'.handler \in CredentialHandlers
     /\ Has(whResp'.payload, "thread_id"))
    => LET m == whResp'.payload
           T == m["thread_id"]
       IN  /\ whResp'.fault = "none"
           /\ Queue(storage', T, "credential-msg") =
                 Append(Queue(storage, T, "credential-msg"), m)
           /\ IF Has(m, "revocation_id")
              THEN Queue(storage', T, "revocation-registry-msg") =
                      Append(Queue(storage, T, "revocation-registry-msg"), m)
              ELSE RegistryQueues(storage') = RegistryQueues(storage)

\* What the fetches of topic revocation-registry were handed.
RegistryFetched ==
    {i \in DOMAIN delivered : delivered[i].type = "revocation-registry-msg"}

\* A fetch of topic revocation-registry with id T returns, with status 200
\* and unchanged, a payload stored under T that carries revocation_id.
MirrorFetched ==
    \A i \in RegistryFetched :
        LET d == delivered[i]
        IN  /\ cmd[d.proc].topic = "revocation-registry"
            /\ d.msg["thread_id"] = cmd[d.proc].record_id
            /\ Has(d.msg, "revocation_id")
            /\ Entry(d.id, "credential-msg", d.msg) \in pushLog
            /\ resp[d.proc] = Returned(200, d.msg)
            /\ resp[d.proc].body["revocation_id"] = d.msg["revocation_id"]

\* C23: a credential webhook (version 1 or 2) of thread T carrying
\* revocation_id is stored under both (T, credential-msg) and (T,
\* revocation-registry-msg), one without it adds nothing to the revocation
\* registry category, and a fetch of revocation-registry with id T returns
\* the mirrored payload with its revocation_id.
C23_RevocationMirror == []MirrorFetched /\ [][MirrorStep]_vars

\* C23 witness: a version 2 credential notification carrying revocation_id
\* was fetched under topic revocation-registry and is still queued under
\* credential-msg.
C23_Witness ==
    \E i \in RegistryFetched :
        /\ Has(delivered[i].msg, "cred_ex_id")
        /\ resp[delivered[i].proc] = Returned(200, delivered[i].msg)
        /\ \E n \in DOMAIN Queue(storage, "t1", "credential-msg") :
              Queue(storage, "t1", "credential-msg")[n] = delivered[i].msg

(***************************************************************************)
(* The branches of handle_connections (checked under SpecWebhook).         *)
(***************************************************************************)
\* The step pushes message m once, under (m[field], data_type), and nowhere
\* else, without a fault.
PushedOnceUnder(m, field, data_type) ==
    /\ whResp'.fault = "none"
    /\ Queue(storage', m[field], data_type) =
          Append(Queue(storage, m[field], data_type), m)
    /\ OtherQueuesKept({<<m[field], data_type>>})

ProtocolOf(m) ==
    IF Has(m, "connection_protocol") THEN m["connection_protocol"] ELSE "none"

\* C24: handle_connections pushes a notification once, keyed by request_id
\* when present, else by invitation_msg_id when the protocol is
\* did-exchange, else by connection_id for the connections protocol; when
\* none applies, a payload without protocol marker included, it fails with
\* the exception for an unknown connection message and pushes nothing.
C24_ConnectionBranch ==
    [][(Received /\ whResp'.handler = <<"handle", "_", "connections">>)
       => LET m == whResp'.payload
          IN  IF Has(m, "request_id")
              THEN PushedOnceUnder(m, "request_id", "didexchange-msg")
              ELSE IF ProtocolOf(m) = "didexchange/1.0"
                      /\ Has(m, "invitation_msg_id")
              THEN PushedOnceUnder(m, "invitation_msg_id", "didexchange-msg")
              ELSE IF ProtocolOf(m) = "connections/1.0"
                      /\ Has(m, "connection_id")
              THEN PushedOnceUnder(m, "connection_id", "connection-msg")
              ELSE whResp'.fault = "Exception" /\ storage' = storage]_vars

(***************************************************************************)
(* No partial success (checked under Spec).                                *)
(***************************************************************************)
\* The notification handed to the i-th fetch is still queued under its pair.
StillQueued(i) ==
    \E n \in DOMAIN Queue(storage, delivered[i].id, delivered[i].type) :
        Queue(storage, delivered[i].id, delivered[i].type)[n] =
            delivered[i].msg

\* The fetch that faulted on the notification it popped left it retrievable.
FaultedFetchKeepsNotification ==
    \A i \in DOMAIN delivered : delivered[i].fault # "none" => StillQueued(i)

\* The command of p faulted after the agent had answered its request with
\* 200, that is, while treating the answer.
FaultedOnAnswer(p) ==
    /\ pc[p] = "fault"
    /\ admin_resp[p].fault = "none" /\ admin_resp[p].status = 200

\* C25: a fetch that faults while translating the notification it popped
\* leaves the notification retrievable, and a command that faults while
\* translating the agent's answer has not had its admin POST applied.
C25_NoPartialSuccess ==
    /\ FaultedFetchKeepsNotification
    /\ \A p \in Procs : FaultedOnAnswer(p) => PostsOf(p) = {}

(***************************************************************************)
(* What a successful rendezvous does to the queue it read.                 *)
(***************************************************************************)
\* The rendezvous of worker p returns an exchange id in this step: the
\* caller goes on to its next await.
RendezvousHit(p) ==
    /\ pc[p] \in {"idle", "swap"}
    /\ UsesRendezvous(cmd'[p])
    /\ pc'[p] \in {"admin", "exp_sleep", "sleep1"}

\* C26: a successful rendezvous removes the notification it matched, so the
\* queue of (thread_id, category) is one entry shorter after it.
C26_RendezvousConsumes ==
    [][\A p \in Procs :
          RendezvousHit(p)
          => Len(Queue(storage', cmd'[p].record_id,
                       RendezvousArgs(cmd'[p]).data_type))
             = Len(RendezvousQueue(cmd'[p])) - 1]_vars

(***************************************************************************)
(* The commands of one credential exchange, sent with the thread id        *)
(* (checked under SpecExchange).                                           *)
(***************************************************************************)
\* An issue-credential command that resolves its thread id by rendezvous:
\* send-offer, send-request, store and GET with a record id, and issue
\* unless the auto mode answers it without calling the agent.
ExchangeCommand(c) ==
    /\ c.topic = "issue-credential"
    /\ c.method \in {"GET", "POST"}
    /\ Dispatch(c).kind = "rendezvous"

\* No fetch has taken a notification of thread T out of its queue.
NotConsumed(T) ==
    \A i \in 1..Len(delivered) :
        ~(delivered[i].id = T /\ delivered[i].type = "credential-msg")

\* Worker p is sent an exchange command in this step.
ExchangeStart(p) ==
    pc[p] = "idle" /\ pc'[p] # "idle" /\ ExchangeCommand(cmd'[p])

\* The command sent to p in this step has its exchange id at once: it
\* waits for no webhook, reads the store without changing it, and has the
\* id every command of the thread resolved before it has.
ResolvesAtOnce(p) ==
    /\ pc'[p] \in {"admin", "exp_sleep", "sleep1"}
    /\ ex_id'[p] \in ExIds
    /\ storage' = storage
    /\ \A q \in Procs \ {p} :
          (/\ ExchangeCommand(cmd[q])
           /\ cmd[q].record_id = cmd'[p].record_id
           /\ ex_id[q] \in ExIds)
          => ex_id'[p] = ex_id[q]

\* A notification of the issue-credential protocol was received for T.
CredentialReceived(T) ==
    \E e \in pushLog :
        /\ e.id = T
        /\ e.type = "credential-msg"
        /\ Has(e.msg, "credential_exchange_id")

\* The oldest notification queued for T carries credential_exchange_id.
OldestCarriesId(T) ==
    /\ Len(Queue(storage, T, "credential-msg")) > 0
    /\ Has(Queue(storage, T, "credential-msg")[1], "credential_exchange_id")

RefusedAnswer(p) ==
    /\ pc[p] \in {"admin", "create"}
    /\ pc'[p] \in {"done", "fault"}
    /\ admin_resp'[p].fault = "none"
    /\ admin_resp'[p].status # 200

\* C28: when the admin API answers a command's request with a status other
\* than 200, the command returns that status and body unchanged and does
\* not fault.
C28_RefusalPassedThrough ==
    [][\A p \in Procs :
          RefusedAnswer(p)
          => resp'[p] = Returned(admin_resp'[p].status, admin_resp'[p].body)]_vars

(***************************************************************************)
(* The state a fetch returns (checked under SpecFetch).                    *)
(***************************************************************************)
\* The notifications the fetch of worker p took out of the store.
FetchedBy(p) ==
    {delivered[i].msg : i \in {j \in 1..Len(delivered) : delivered[j].proc = p}}

\* C29: a notification with a state field that a fetch returns has that
\* state rewritten to the harness vocabulary of the fetch topic.
C29_FetchTranslated ==
    \A p \in Procs :
        (IsFetch(cmd[p]) /\ pc[p] = "done")
        => \A m \in FetchedBy(p) :
              Has(m, "state")
              => resp[p].body = agent_state_translation(cmd[p].topic, m).data

(***************************************************************************)
(* The request of revocation/revoke (checked under SpecPure).              *)
(***************************************************************************)
\* revocation/revoke is prepared for an agent whose version text gives a
\* number, with data that names the credential by cred_rev_id and
\* rev_registry_id and says whether to publish.
IsRevoke ==
    /\ call.fn = "get_agent_operation_acapy_version_based"
    /\ call.operation = "revoke"
    /\ get_acapy_version_as_float(call.acapy_version).fault = "none"
    /\ {"cred_rev_id", "rev_registry_id", "publish_immediately"}
          \subseteq DOMAIN call.data
    /\ "cred_ex_id" \notin DOMAIN call.data

\* str(publish).lower()
LowerCased(publish) == IF publish THEN "true" ELSE "false"

\* The request of an agent newer than 0.5.4: the values in a JSON body.
BodyShape ==
    /\ call.out.path = <<"/revocation/", "revoke">>
    /\ call.out.query = <<>>
    /\ call.out.data # NoData
    /\ call.out.data.cred_rev_id = call.data.cred_rev_id
    /\ call.out.data.rev_reg_id = call.data.rev_registry_id
    /\ call.out.data.publish = LowerCased(call.data.publish_immediately)

\* The request of the older agents: the values in the query, no body.
QueryShape ==
    /\ call.out.path = <<"/issue-credential/", "revoke">>
    /\ call.out.data = NoData
    /\ call.out.query =
          <<<<"cred_rev_id", <<call.data.cred_rev_id>>>>,
            <<"rev_reg_id", <<call.data.rev_registry_id>>>>,
            <<"publish", <<LowerCased(call.data.publish_immediately)>>>>>>

\* C30: revocation/revoke is sent in one of two shapes, to /revocation/revoke
\* with a JSON body when the version number is above 54 and to
\* /issue-credential/revoke with query parameters and no body otherwise,
\* and in both cred_rev_id, rev_reg_id and publish carry the harness's
\* values, publish as the lower-cased boolean.
C30_RevokeShape ==
    IsRevoke
    => /\ call.out.fault = "none"
       /\ IF get_acapy_version_as_float(call.acapy_version).tenths > 540
          THEN BodyShape ELSE QueryShape

(***************************************************************************)
(* The number the version text is compared by (checked under SpecPure).    *)
(***************************************************************************)
\* A release: its three numbers, and whether it is a pre-release build.
Releases ==
    [major : {0, 1}, minor : {0, 5, 6, 7}, patch : {0, 3, 4, 5, 9, 10},
     pre : BOOLEAN]

Numeral(n) ==
    IF n < 10
    THEN <<<<"0", "1", "2", "3", "4", "5", "6", "7", "8", "9">>[n + 1]>>
    ELSE <<"1", "0">>

\* The version text of release r.
VersionText(r) ==
    Numeral(r.major) \o <<".">> \o Numeral(r.minor) \o <<".">>
    \o Numeral(r.patch) \o (IF r.pre THEN <<"-", "R", "C">> ELSE <<>>)

\* Release a comes before release b; a pre-release build follows the
\* official release of its number.
Earlier(a, b) ==
    \/ a.major < b.major
    \/ a.major = b.major /\ a.minor < b.minor
    \/ a.major = b.major /\ a.minor = b.minor /\ a.patch < b.patch
    \/ /\ a.major = b.major /\ a.minor = b.minor /\ a.patch = b.patch
       /\ ~a.pre /\ b.pre

\* The number of release r, in tenths.
Marker(r) == get_acapy_version_as_float(VersionText(r)).tenths

\* The version number was taken of the text of release r.
MarkerTakenOf(r) ==
    /\ call.fn = "get_agent_operation_acapy_version_based"
    /\ SelectSeq(call.acapy_version, LAMBDA ch : ch # "\n") = VersionText(r)

\* The values the claim names: 0.5.4 gives 54, 0.5.5-RC gives 55.1, no
\* version gives 0; a pre-release lies above its release and below the next.
MarkerValues ==
    /\ call.fn = "get_agent_operation_acapy_version_based"
       => /\ call.acapy_version = <<>>
             => call.comparibleVersion = [fault |-> "none", tenths |-> 0]
          /\ call.acapy_version = <<"0", ".", "5", ".", "4">>
             => call.comparibleVersion = [fault |-> "none", tenths |-> 540]
          /\ call.acapy_version = <<"0", ".", "5", ".", "5", "-", "R", "C", "\n">>
             => call.comparibleVersion = [fault |-> "none", tenths |-> 551]
    /\ \A r \in Releases :
          (MarkerTakenOf(r) /\ r.pre)
          => /\ call.comparibleVersion.tenths > Marker([r EXCEPT !.pre = FALSE])
             /\ r.patch < 9 =>
                   call.comparibleVersion.tenths
                      < Marker([r EXCEPT !.pre = FALSE, !.patch = @ + 1])

\* C31: the version number is 54 for 0.5.4, 55.1 for 0.5.5-RC and 0 for no
\* version, a pre-release lies strictly between its release and the next,
\* and of two releases the earlier never has the greater number.
C31_MarkerOrderPreserving ==
    /\ MarkerValues
    /\ \A a, b \in Releases :
          (MarkerTakenOf(a) /\ Earlier(a, b))
          => /\ call.comparibleVersion.fault = "none"
             /\ call.comparibleVersion.tenths <= Marker(b)

(***************************************************************************)
(* The configuration after the start (checked under SpecStartup).          *)
(***************************************************************************)
\* detect_process has set the version.
Detected == call.fn = "detect_process" /\ call.fault = "none"

\* A step of a command, of a fetch or of the webhook receiver.
HandlerStep == pc' # pc \/ nWebhooks' # nWebhooks \/ storage' # storage

\* Every request of a revocation command was shaped by the version the
\* backchannel has now.
OneMarker ==
    \A r \in adminLog :
        cmd[r.proc].topic = "revocation"
        => r.path = get_agent_operation_acapy_version_based(
                        acapy_version, cmd[r.proc].operation,
                        DataOf(cmd[r.proc])).agent_operation

DataHarness ==
    [webhooks |->
        {Webhook(<<"present", "_", "proof", "_", "v2", "_", "0">>,
                 [thread_id |-> "t2", pres_ex_id |-> "x1",
                  state |-> "request-sent"])},
     commands |->
        {DataCommand("POST", "proof-v2", "send-request", r,
                     [presentation_request |-> pr]) :
            r \in {"none", "t2"},
            pr \in {[format |-> "indy", comment |-> "c",
                     data |-> [name |-> "proof"]],
                    [format |-> "json-ld", data |-> [name |-> "proof"]],
                    [format |-> "bogus", comment |-> "c"],
                    [comment |-> "c"]}}
        \cup {DataCommand("POST", "proof-v2", "send-presentation", r, d) :
                 r \in {"none", "t2"},
                 d \in {[format |-> "json-ld", comment |-> "c"],
                        [format |-> "bogus", comment |-> "c"],
                        [comment |-> "c"]}}
        \cup {Command("POST", "proof-v2", "send-request", "none")}
        \cup {DataCommand("POST", "issue-credential-v2", "prepare-json-ld",
                          "none", d) :
                 d \in {[proof_type |-> "Ed25519Signature2018",
                         did_method |-> "key"],
                        [proof_type |-> "BbsBlsSignature2020",
                         did_method |-> "sov"],
                        [proof_type |-> "Ed25519Signature2018",
                         did_method |-> "bogus"],
                        [proof_type |-> "bogus", did_method |-> "key"],
                        [proof_type |-> "Ed25519Signature2018"],
                        [did_method |-> "key"]}},
     wallet |->
        {[status |-> 200, dids |-> <<>>, fault |-> "none"],
         [status |-> 200, dids |-> <<<<"z6Mk">>>>, fault |-> "none"],
         [status |-> 200, dids |-> <<<<"did", "key", "z6Mk">>>>,
          fault |-> "none"],
         [status |-> 400, dids |-> <<>>, fault |-> "none"],
         [status |-> 0, dids |-> <<>>, fault |-> "ClientError"]}]

DataNext ==
    \/ \E w \in DataHarness.webhooks :
          ReceiveUpTo(MaxDispatchWebhooks, w.topic, w.base)
    \/ \E p \in Procs, c \in DataHarness.commands : Start(p, c)
    \/ \E p \in Procs : SwapPoll(p)
    \/ \E p \in Procs : SendPost(p)
    \/ \E p \in Procs : AdminResponse(p)
    \/ \E p \in Procs, r \in DataHarness.wallet : WalletResponse(p, r)

SpecData == Init /\ [][DataNext]_vars

\* The data of command c lacks the discriminator its operation needs, or
\* carries one the backchannel does not know.
BadFormat(c) ==
    /\ c.method = "POST" /\ c.topic = "proof-v2" /\ DataOf(c) # NoData
    /\ \/ /\ c.operation = "send-request"
          /\ \/ "presentation_request" \notin DOMAIN c.data
             \/ "format" \notin DOMAIN c.data["presentation_request"]
             \/ c.data["presentation_request"]["format"]
                   \notin {"indy", "json-ld"}
       \/ /\ c.operation = "send-presentation"
          /\ \/ "format" \notin DOMAIN c.data
             \/ c.data["format"] \notin {"indy", "json-ld"}

BadProofType(c) ==
    /\ c.method = "POST" /\ c.topic = "issue-credential-v2"
    /\ c.operation = "prepare-json-ld" /\ DataOf(c) # NoData
    /\ \/ "proof_type" \notin DOMAIN c.data
       \/ c.data["proof_type"]
             \notin {"Ed25519Signature2018", "BbsBlsSignature2020"}

BadDidMethod(c) ==
    /\ c.method = "POST" /\ c.topic = "issue-credential-v2"
    /\ c.operation = "prepare-json-ld" /\ DataOf(c) # NoData
    /\ \/ "did_method" \notin DOMAIN c.data
       \/ c.data["did_method"] \notin {"key", "sov"}

\* The command of worker p has not sent a POST and, once over, has ended
\* in a fault.
FaultsUnsent(p) ==
    /\ PostsOf(p) = {}
    /\ pc[p] \notin {"done"}

\* C33: a proof-v2 send-request or send-presentation whose format is
\* missing or unrecognised, and a prepare-json-ld whose proof_type or
\* did_method is missing or unrecognised, ends in a fault, and no admin
\* POST is issued for it.
C33_BadDiscriminatorFaults ==
    \A p \in Procs :
        BadFormat(cmd[p]) \/ BadProofType(cmd[p]) \/ BadDidMethod(cmd[p])
            => FaultsUnsent(p)

(***************************************************************************)
(* The exchange id of a command (checked under SpecWait).                  *)
(***************************************************************************)
\* The values of the id field in the notifications pushed under the thread
\* id of command c and the category of its rendezvous.
OwnExchangeIds(c) ==
    {e.msg[RendezvousArgs(c).id_txt] :
        e \in {d \in pushLog :
                  /\ d.id = c.record_id
                  /\ d.type = RendezvousArgs(c).data_type
                  /\ Has(d.msg, RendezvousArgs(c).id_txt)}}

\* C34: the exchange id a command that uses the rendezvous holds, and the
\* one in the path of each admin request it sent, is the id field's value
\* of a notification pushed under the command's own thread id and category.
C34_NoCrossExchange ==
    \A p \in Procs :
        (UsesRendezvous(cmd[p]) /\ Dispatch(cmd[p]).kind = "rendezvous")
        => /\ ex_id[p] # "none" => ex_id[p] \in OwnExchangeIds(cmd[p])
           /\ \A r \in RequestsOf(p) :
                 \E ex \in OwnExchangeIds(cmd[p]) :
                    r.path \in {AdminPath(cmd[p], ex), RecordPath(cmd[p], ex)}

\* C34 witness: a command sent its request with the exchange id of its own
\* thread while the same category held a notification of another thread
\* since before the command was answered.
C34_Witness ==
    \E p \in Procs :
        /\ UsesRendezvous(cmd[p]) /\ Dispatch(cmd[p]).kind = "rendezvous"
        /\ pc[p] = "admin"
        /\ RequestsOf(p) # {}
        /\ \E kc \in DOMAIN storage :
              /\ kc[1] # cmd[p].record_id
              /\ kc[2] = RendezvousArgs(cmd[p]).data_type
              /\ Len(storage[kc]) > 0

(***************************************************************************)
(* The bound of a fetch (checked under SpecFetch).                         *)
(***************************************************************************)
\* The (id, category) pair the fetch of command c pops from.
OwnPair(c) == <<c.record_id, FetchCategory[c.topic]>>

\* The notifications the fetch of worker p has taken from the store.
TakenBy(p) == {i \in DOMAIN delivered : delivered[i].proc = p}

\* In this step the fetch of worker p makes a pop attempt.
PopAttempt(p) == IsFetch(cmd'[p]) /\ reads'[p] # reads[p]

FetchBounded ==
    \A p \in Procs :
        IsFetch(cmd[p])
        => /\ reads[p] <= MAX_TIMEOUT + 1
           /\ pc[p] = "fetch" => reads[p] <= MAX_TIMEOUT
           /\ Cardinality(TakenBy(p)) <= 1
           /\ \A i \in TakenBy(p) :
                 /\ <<delivered[i].id, delivered[i].type>> = OwnPair(cmd[p])
                 /\ pc[p] \in {"done", "fault"}

\* A pop attempt counts one more, touches no queue but its own, takes the
\* head of that queue or nothing, and is the last when it took one.
OnePop(p) ==
    /\ reads'[p] = reads[p] + 1
    /\ DOMAIN storage' = DOMAIN storage
    /\ \A kc \in DOMAIN storage :
          \/ storage'[kc] = storage[kc]
          \/ /\ kc = OwnPair(cmd'[p])
             /\ Len(storage[kc]) > 0
             /\ storage'[kc] = Tail(storage[kc])
             /\ pc'[p] \in {"done", "fault"}

\* C35: a fetch with a record id makes at most MAX_TIMEOUT + 1 pop attempts,
\* all on the queue of its own (id, category) pair, takes at most one
\* notification from the store, and polls no more once a pop succeeded.
C35_FetchBounded ==
    /\ []FetchBounded
    /\ [][\A p \in Procs : PopAttempt(p) => OnePop(p)]_vars

\* C35 witness: a fetch found its queue empty five times and took the
\* notification at its sixth and last pop.
C35_Witness ==
    \E p \in Procs :
        /\ IsFetch(cmd[p]) /\ pc[p] = "done"
        /\ reads[p] = MAX_TIMEOUT + 1
        /\ Cardinality(TakenBy(p)) = 1

(***************************************************************************)
(* SpecLatest: the fetch of the latest connection notification, asked for  *)
(* without a record id, beside a fetch by id, while the agent reports on   *)
(* connections of both protocols.                                          *)
(***************************************************************************)
LatestHarness ==
    [webhooks |->
        {Webhook(<<"connections">>,
                 [connection_protocol |-> "didexchange/1.0",
                  invitation_msg_id |-> "i1", connection_id |-> "c1",
                  state |-> "request"]),
         Webhook(<<"connections">>,
                 [request_id |-> "r1", connection_id |-> "c1",
                  state |-> "request"]),
         Webhook(<<"connections">>,
                 [connection_protocol |-> "connections/1.0",
                  connection_id |-> "c2", state |-> "request"])},
     commands |->
        {Command("POST", "did-exchange", "receive-request-resolvable-did",
                 "none"),
         Command("FETCH", "did-exchange", "none", "none"),
         Command("FETCH", "did-exchange", "none", "i1"),
         Command("FETCH", "connection", "none", "c2")}]

MaxLatestWebhooks == 3

LatestNext ==
    \/ \E w \in LatestHarness.webhooks :
          ReceiveUpTo(MaxLatestWebhooks, w.topic, w.base)
    \/ \E p \in Procs, c \in LatestHarness.commands : Start(p, c)
    \/ \E p \in Procs : LatestPoll(p)
    \/ \E p \in Procs : FetchPoll(p)

SpecLatest == Init /\ [][LatestNext]_vars

\* Command c is the did-exchange fetch without a record id that
\* receive-request-resolvable-did makes with message_name "didexchange-msg".
NamedLatest(c) ==
    /\ c.method = "POST" /\ c.topic = "did-exchange"
    /\ c.operation = "receive-request-resolvable-did"
    /\ ~HasRecordId(c)

\* The notifications queued under the category connection-msg.
ConnectionQueues(s) ==
    [kc \in {x \in DOMAIN s : x[2] = "connection-msg"} |-> s[kc]]

\* C36: the did-exchange fetch without a record id that was given the
\* message name didexchange-msg pops that category at its first attempt and
\* at every retry: it takes no notification of the category connection-msg,
\* neither from the store nor into its answer.
C36_CategoryFaithful ==
    /\ [](\A i \in DOMAIN delivered :
             NamedLatest(cmd[delivered[i].proc])
                => delivered[i].type = "didexchange-msg")
    /\ [][\A p \in Procs :
             (NamedLatest(cmd[p]) /\ reads'[p] # reads[p])
                => ConnectionQueues(storage') = ConnectionQueues(storage)]_vars

(***************************************************************************)
(* The two pushes of a credential webhook (checked under SpecExchange).    *)
(***************************************************************************)
\* Notification m of thread T is queued under the revocation registry
\* category or was taken from it by a fetch.
MirrorPresent(T, m) ==
    \/ \E n \in DOMAIN Queue(storage, T, "revocation-registry-msg") :
          Queue(storage, T, "revocation-registry-msg")[n] = m
    \/ \E i \in DOMAIN delivered :
          /\ delivered[i].id = T
          /\ delivered[i].type = "revocation-registry-msg"
          /\ delivered[i].msg = m

\* C37: the push of a credential webhook carrying revocation_id under
\* (thread_id, credential-msg) and its push under (thread_id,
\* revocation-registry-msg) happen without a suspension between them: in no
\* state that a fetch or a rendezvous can act in is the first there and the
\* second missing.
C37_MirrorAtomic ==
    \A e \in pushLog :
        (e.type = "credential-msg" /\ Has(e.msg, "revocation_id"))
        => /\ Entry(e.id, "revocation-registry-msg", e.msg) \in pushLog
           /\ MirrorPresent(e.id, e.msg)

\* C37 witness: a fetch of the revocation registry category that had found
\* nothing is still polling when the credential notification with
\* revocation_id is there under both categories.
C37_Witness ==
    \E p \in Procs :
        /\ IsFetch(cmd[p]) /\ cmd[p].topic = "revocation-registry"
        /\ pc[p] = "fetch" /\ reads[p] >= 1
        /\ \E n \in DOMAIN Queue(storage, cmd[p].record_id, "credential-msg") :
              LET m == Queue(storage, cmd[p].record_id, "credential-msg")[n]
              IN  /\ Has(m, "revocation_id")
                  /\ Queue(storage, cmd[p].record_id,
                           "revocation-registry-msg") = <<m>>

(***************************************************************************)
(* SpecConcurrent: creation commands of two harness requests in flight at  *)
(* the same time, with the agent's ledger behind them.                     *)
(***************************************************************************)
ConcurrentNext ==
    \/ \E p \in Procs, c \in CreateCommands : Start(p, c)
    \/ \E p \in Procs : LookupResponse(p)
    \/ \E p \in Procs : CreateResponse(p)

SpecConcurrent == Init /\ [][ConcurrentNext]_vars

\* Workers p and q run creation commands with the same natural key, both
\* unanswered.
SameKeyInFlight(p, q) ==
    /\ p # q
    /\ cmd[p] \in CreateCommands /\ cmd[q] = cmd[p]
    /\ pc[p] \in {"lookup", "create"} /\ pc[q] \in {"lookup", "create"}

\* C38: while two schema creations, or two credential definition
\* creations, with the same natural key are in flight together, at most one
\* create POST has been issued by the two.
C38_OneCreatePost ==
    \A p, q \in Procs :
        SameKeyInFlight(p, q) => Cardinality(PostsOf(p) \cup PostsOf(q)) <= 1

====
